---- MODULE Spec2Model ----
(***************************************************************************)
(* Provider health store (circuit breaker) and the generic LLM provider   *)
(* adapter of the signal generator.                                        *)
(*                                                                         *)
(* app/utils/providerHealthStore.ts : getHealthStatus, recordSuccess,      *)
(*                                    recordFailure over AsyncStorage      *)
(* app/services/llmService.ts       : buildAdapterFromSpec(spec).call      *)
(* app/services/_utils_helpers.ts   : extractTextFromObject                *)
(* app/schemas.ts                   : ParsedSignalSchema                   *)
(*                                                                         *)
(* Every await of the code is a step of its own, so that calls can         *)
(* overlap exactly where the event loop lets them.  A call slot is one     *)
(* invocation in flight: of adapter.call, or of one of the three exported  *)
(* health-store functions called directly (the hooks and screens call      *)
(* getHealthStatus; the store's API is public).                            *)
(*                                                                         *)
(* app/services/signalService.ts    : generateTradingSignal                *)
(* app/services/playbookService.ts  : addSignalToPlaybook                  *)
(*                                                                         *)
(* GenSpec is one run of generateTradingSignal: the adapter calls it       *)
(* dispatches settle in any order, each with one of the responses that     *)
(* call() builds (CallResponses), and the aggregation is computed with     *)
(* exact rational arithmetic.                                              *)
(***************************************************************************)
EXTENDS Integers, Sequences, FiniteSets, TLC

\* ------------------------------------------------------------- constants
FAILURE_THRESHOLD == 3

OPEN_TIMEOUT_MS == 60000

DEFAULT_MAX_RETRIES == 1

BACKOFF_BASE_MS == 200

\* --------------------------------------------------------------- bounds
\* The clock stops at MaxTime.
MaxTime == 61000

\* No new operation is started on a provider whose stored failureCount
\* has reached MaxFailureCount.
MaxFailureCount == 4

\* The count of consecutive recorded failures is kept up to MaxStreak.
MaxStreak == 6

\* Largest spec.maxRetries a provider spec is configured with.
MaxRetriesBound == 2

\* Date.now() advances by one of these amounts between steps.
TickSteps == {60000, 60001}

Providers == {"p1", "p2"}

Calls == {"c1", "c2"}

\* null / undefined of the source
Null == [null |-> TRUE]

\* spec.maxRetries as configured: absent, or a non-negative integer
MaxRetriesChoices == {Null} \cup {[n |-> k] : k \in 0..MaxRetriesBound}

\* --------------------------------------------- providerHealthStore.ts

\* getHealthStatus, given the raw item AsyncStorage returned and Date.now()
getHealthStatus_ge(raw, providerId, t) ==
  IF raw # Null
  THEN IF raw.state = "OPEN" /\ t - raw.lastAttempt >= OPEN_TIMEOUT_MS
       THEN [raw EXCEPT !.state = "HALF_OPEN"]
       ELSE raw
  ELSE [providerId |-> providerId, state |-> "CLOSED",
        failureCount |-> 0, lastAttempt |-> t]

getHealthStatus(raw, providerId, t) ==
  IF raw # Null
  THEN IF raw.state = "OPEN" /\ t - raw.lastAttempt > OPEN_TIMEOUT_MS
       THEN [raw EXCEPT !.state = "HALF_OPEN"]
       ELSE raw
  ELSE [providerId |-> providerId, state |-> "CLOSED",
        failureCount |-> 0, lastAttempt |-> t]

\* the record recordSuccess hands to setHealthStatus
recordSuccess_keepCount(raw, providerId, t) ==
  [providerId |-> providerId, state |-> "CLOSED",
   failureCount |-> IF raw = Null THEN 0 ELSE raw.failureCount,
   lastAttempt |-> t]

recordSuccessHealth(raw, providerId, t) ==
  [providerId |-> providerId, state |-> "CLOSED",
   failureCount |-> 0, lastAttempt |-> t]

\* the record recordFailure hands to setHealthStatus, from the view
\* getHealthStatus returned to it
recordFailure_sameCount(currentHealth, providerId, t) ==
  LET newFailureCount == currentHealth.failureCount
      newState == IF currentHealth.state = "HALF_OPEN" THEN "OPEN"
                  ELSE IF newFailureCount >= FAILURE_THRESHOLD THEN "OPEN"
                  ELSE currentHealth.state
  IN [providerId |-> providerId, state |-> newState,
      failureCount |-> newFailureCount, lastAttempt |-> t]

recordFailure_keepHalfOpen(currentHealth, providerId, t) ==
  LET newFailureCount == currentHealth.failureCount + 1
      newState == IF currentHealth.state = "HALF_OPEN" THEN "HALF_OPEN"
                  ELSE IF newFailureCount >= FAILURE_THRESHOLD THEN "OPEN"
                  ELSE currentHealth.state
  IN [providerId |-> providerId, state |-> newState,
      failureCount |-> newFailureCount, lastAttempt |-> t]

recordFailure_gt(currentHealth, providerId, t) ==
  LET newFailureCount == currentHealth.failureCount + 1
      newState == IF currentHealth.state = "HALF_OPEN" THEN "OPEN"
                  ELSE IF newFailureCount > FAILURE_THRESHOLD THEN "OPEN"
                  ELSE currentHealth.state
  IN [providerId |-> providerId, state |-> newState,
      failureCount |-> newFailureCount, lastAttempt |-> t]

recordFailure_staleAttempt(currentHealth, providerId, t) ==
  LET newFailureCount == currentHealth.failureCount + 1
      newState == IF currentHealth.state = "HALF_OPEN" THEN "OPEN"
                  ELSE IF newFailureCount >= FAILURE_THRESHOLD THEN "OPEN"
                  ELSE currentHealth.state
  IN [providerId |-> providerId, state |-> newState,
      failureCount |-> newFailureCount, lastAttempt |-> currentHealth.lastAttempt]

recordFailureHealth(currentHealth, providerId, t) ==
  LET newFailureCount == currentHealth.failureCount + 1
      newState == IF currentHealth.state = "HALF_OPEN" THEN "OPEN"
                  ELSE IF newFailureCount >= FAILURE_THRESHOLD THEN "OPEN"
                  ELSE currentHealth.state
  IN [providerId |-> providerId, state |-> newState,
      failureCount |-> newFailureCount, lastAttempt |-> t]

\* ------------------------------------------------ _utils_helpers.ts
\* A decoded response body is a record with some of the fields the probes
\* look at.  A string of text is [segs |-> <<segment, ...>>], each segment
\* being prose without braces ([prose |-> ..]), a well-formed JSON object
\* literal ([json |-> obj]) or a brace block that is not JSON
\* ([braces |-> ..]).

Has(obj, k) == k \in DOMAIN obj

IsText(v) == v # Null /\ DOMAIN v = {"segs"}

\* truthiness of a string: '' is falsy
Truthy(v) == IsText(v) /\ Len(v.segs) > 0

extractTextFromObject(obj) ==
  IF obj = Null THEN Null
  ELSE IF IsText(obj) THEN obj
  ELSE IF Has(obj, "choices") /\ Len(obj.choices) > 0
          /\ Has(obj.choices[1], "message")
          /\ Has(obj.choices[1].message, "content")
          /\ IsText(obj.choices[1].message.content)
       THEN obj.choices[1].message.content
  ELSE IF Has(obj, "choices") /\ Len(obj.choices) > 0
          /\ Has(obj.choices[1], "text") /\ IsText(obj.choices[1].text)
       THEN obj.choices[1].text
  ELSE IF Has(obj, "candidates") /\ Len(obj.candidates) > 0
          /\ Has(obj.candidates[1], "content")
          /\ Has(obj.candidates[1].content, "parts")
          /\ Len(obj.candidates[1].content.parts) > 0
       THEN IF Has(obj.candidates[1].content.parts[1], "text")
            THEN obj.candidates[1].content.parts[1].text
            ELSE Null
  ELSE IF Has(obj, "completion") /\ Truthy(obj.completion) THEN obj.completion
  ELSE IF Has(obj, "text") /\ IsText(obj.text) THEN obj.text
  ELSE IF Has(obj, "content") /\ IsText(obj.content) THEN obj.content
  ELSE IF Has(obj, "response") /\ IsText(obj.response) THEN obj.response
  ELSE IF Has(obj, "output") /\ IsText(obj.output) THEN obj.output
  ELSE Null

\* ---------------------------------------------------------- schemas.ts
\* A JSON value is [num |-> n] or [str |-> s]; a JSON object is a record
\* of JSON values.

SchemaKeys == {"type", "confidence", "price", "stopLoss", "takeProfit", "reasoning"}

\* a number is [num |-> n], or [num |-> n, den |-> d] for n / d
IsNum(v) == DOMAIN v \in {{"num"}, {"num", "den"}}

Den(v) == IF "den" \in DOMAIN v THEN v.den ELSE 1

IsStr(v) == DOMAIN v = {"str"}

FieldValid(k, v) ==
  CASE k = "type"       -> IsStr(v) /\ v.str \in {"BUY", "SELL", "HOLD"}
    [] k = "confidence" -> IsNum(v) /\ v.num >= 0 /\ v.num <= 100 * Den(v)
    [] k = "price"      -> IsNum(v) /\ v.num > 0
    [] k = "stopLoss"   -> IsNum(v) /\ v.num > 0
    [] k = "takeProfit" -> IsNum(v) /\ v.num > 0
    [] k = "reasoning"  -> IsStr(v)

\* ParsedSignalSchema.safeParse: every field optional, unknown keys stripped
ParsedSignalSchema_keepUnknown(obj) ==
  IF \A k \in DOMAIN obj \cap SchemaKeys : FieldValid(k, obj[k])
  THEN [success |-> TRUE, data |-> obj]
  ELSE [success |-> FALSE]

ParsedSignalSchema(obj) ==
  IF \A k \in DOMAIN obj \cap SchemaKeys : FieldValid(k, obj[k])
  THEN [success |-> TRUE,
        data |-> [k \in DOMAIN obj \cap SchemaKeys |-> obj[k]]]
  ELSE [success |-> FALSE]

\* ------------------------------------------------------- llmService.ts

\* text.match(/\{[\s\S]*\}/): greedy, from the first "{" to the last "}"
HasBrace(seg) == DOMAIN seg \in {{"json"}, {"braces"}}

BraceIdx(text) == {i \in 1..Len(text.segs) : HasBrace(text.segs[i])}

Min(S) == CHOOSE x \in S : \A y \in S : x <= y

Max(S) == CHOOSE x \in S : \A y \in S : x >= y

TextMatch(text) ==
  IF BraceIdx(text) = {} THEN Null
  ELSE [segs |-> SubSeq(text.segs, Min(BraceIdx(text)), Max(BraceIdx(text)))]

\* JSON.parse(match[0]) inside try/catch: the object, or undefined
JsonParse_first(match) ==
  IF DOMAIN match.segs[1] = {"json"}
  THEN match.segs[1].json
  ELSE Null

JsonParse(match) ==
  IF Len(match.segs) = 1 /\ DOMAIN match.segs[1] = {"json"}
  THEN match.segs[1].json
  ELSE Null

\* lines 199-210: parsedJson
ParsedJson(text) ==
  IF Truthy(text)
  THEN IF TextMatch(text) # Null THEN JsonParse(TextMatch(text)) ELSE Null
  ELSE Null

\* error strings are kept as the fragments they are built from
CircuitOpenError(id) ==
  <<"Circuit breaker is open", " for ", id, ". Temporarily unavailable.">>

InvalidSchemaError == <<"Invalid response schema">>

NoJsonError == <<"No valid JSON found in response">>

\* String(err) of an Error object
StringOf(err) == <<err.name, ": ", err.message>>

Contains(msg, fragment) == \E i \in 1..Len(msg) : msg[i] = fragment

RECURSIVE Pow2(_)

Pow2(n) == IF n = 0 THEN 1 ELSE 2 * Pow2(n - 1)

\* line 152: spec.maxRetries ?? 1
RetriesOf(maxRetries) == IF maxRetries = Null THEN DEFAULT_MAX_RETRIES ELSE maxRetries.n

\* line 157: the call is refused
CircuitRefuses_never(h) == FALSE

CircuitRefuses(h) == h.state = "OPEN"

\* lines 188 and 231: another attempt follows
ShouldRetry_lt(attemptNo, limit) == attemptNo < limit

ShouldRetry(attemptNo, limit) == attemptNo <= limit

\* line 229: lastErr = err
NextLastErr_first(prevErr, err) == IF prevErr = Null THEN err ELSE prevErr

NextLastErr(prevErr, err) == err

\* line 231: the argument of sleep, computed after attempt++
BackoffMs(attemptNo) == BACKOFF_BASE_MS * Pow2(attemptNo)

\* ----------------------------------------------- what providers send
JsonText(prefix, obj) == [segs |-> <<[prose |-> prefix], [json |-> obj]>>]

ObjFull ==
  [type |-> [str |-> "BUY"], confidence |-> [num |-> 80],
   price |-> [num |-> 50000], stopLoss |-> [num |-> 49000],
   takeProfit |-> [num |-> 51000]]

ObjPartial == [type |-> [str |-> "SELL"], model |-> [str |-> "m-1"]]

ObjBadSchema == [type |-> [str |-> "LONG"], confidence |-> [num |-> 150]]

BodyFull == [choices |-> <<[message |-> [content |-> JsonText("Signal: ", ObjFull)]]>>]

BodyPartial == [completion |-> JsonText("", ObjPartial)]

BodyBadSchema == [text |-> JsonText("", ObjBadSchema)]

BodyProse ==
  [response |-> [segs |-> <<[prose |-> "I recommend SELL. Confidence: 72. Entry: $1,234.50"]>>]]

BodyBraces == [output |-> [segs |-> <<[braces |-> "{not json}"]>>]]

BodyTwoObjects ==
  [content |-> [segs |-> <<[json |-> ObjFull], [prose |-> " or "], [json |-> ObjPartial]>>]]

BodyNoText == [id |-> [str |-> "resp-1"]]

\* the JSON object {}
ObjEmpty == [k \in {} |-> Null]

BodyEmpty == [text |-> JsonText("", ObjEmpty)]

Bodies ==
  {BodyFull, BodyPartial, BodyBadSchema, BodyProse, BodyBraces,
   BodyTwoObjects, BodyNoText, BodyEmpty}

\* fetchWithTimeout rejects: the timer aborted the request, or the network failed
AbortError == [name |-> "AbortError", message |-> "Aborted"]

NetworkError == [name |-> "TypeError", message |-> "Network request failed"]

FetchErrors == {AbortError, NetworkError}

\* res.json() rejects: the body is not JSON
BodyError == [name |-> "SyntaxError", message |-> "JSON Parse error"]

\* ------------------------------------------------------------- state
VARIABLES
  now,        \* Date.now()
  store,      \* AsyncStorage: provider id -> stored ProviderHealth or Null
  pc,         \* call slot -> where the invocation is suspended
  kind,       \* call slot -> which function was invoked
  prov,       \* call slot -> spec.id / providerId
  maxRetries, \* adapter: spec.maxRetries as configured
  retries,    \* adapter: const retries
  health,     \* the view getHealthStatus returned (llmService line 156)
  attempt,    \* adapter: let attempt
  lastErr,    \* adapter: let lastErr
  curHealth,  \* recordFailure: const currentHealth
  pending,    \* the record handed to setHealthStatus, not yet written
  ret,        \* adapter: the response built before the record call returns
  result,     \* the value the invocation returned
  timer,      \* fetchWithTimeout: the abort timer is set (setTimeout, not yet cleared)
  httpCalls,  \* per slot: invocations of fetchWithTimeout in this call
  thrown,     \* per slot: what the latest attempt of this call threw
  sleeps,     \* per slot: arguments of sleep in this call, in order
  recS,       \* per slot: invocations of recordSuccess in this call
  recF,       \* per slot: invocations of recordFailure in this call
  streak      \* provider -> recordFailure writes since the last recordSuccess write

locals ==
  <<pc, kind, prov, maxRetries, retries, health, attempt, lastErr, curHealth, pending, ret,
    result, timer>>

counters == <<httpCalls, thrown, sleeps, recS, recF>>

\* one run of generateTradingSignal (signalService.ts)
VARIABLES
  gpc,          \* where the run is suspended
  aggregation,  \* parameter aggregation
  providerSpecs,\* parameter providerSpecs, as the sequence of their ids
  running,      \* Promise.all: indexes of the calls not settled yet
  settled,      \* Promise.all: index -> the value its promise resolved with
  late,         \* some call settled before a call dispatched ahead of it
  final,        \* const final, built before addSignalToPlaybook is awaited
  out,          \* the value the run returned
  playbook      \* AsyncStorage: the stored list of SignalHistory

gvars == <<gpc, aggregation, providerSpecs, running, settled, late, final, out, playbook>>

avars == <<now, store, locals, counters, streak>>

VARIABLES
  prev,         \* what an earlier run with the same arguments returned
  added,        \* addSignalToPlaybook calls made on the playbook so far
  template,     \* renderTemplate: parameter template
  templateVars, \* renderTemplate: parameter vars
  rendered      \* renderTemplate: the string returned

\* useSignalGenerator (hooks/useSignalGenerator.ts) and overlapping
\* addSignalToPlaybook calls
VARIABLES
  providersWithHealth, \* hook state: provider id -> the health last observed, or Null
  activeProviders,     \* generate: the ids handed to generateTradingSignal
  called,              \* the providers the latest generate() sent a request to
  error,               \* hook state: error
  generations,         \* generate() calls made so far
  adding,              \* call slot -> addSignalToPlaybook in flight: its item and loaded list
  callArgs,            \* adapter.call: the spec's templates, the secrets, extra and model
  request              \* adapter.call: the headers and bodyText it rendered

hvars == <<providersWithHealth, activeProviders, called, error, generations>>

qvars == <<callArgs, request>>

rest == <<prev, added, template, templateVars, rendered, adding, hvars, qvars>>

vars == <<now, store, locals, counters, streak, gvars, rest>>

\* the model stops starting operations on a provider at MaxFailureCount
Bounded(p) == IF store[p] = Null THEN TRUE ELSE store[p].failureCount < MaxFailureCount

\* nothing stored, nothing running
Fresh ==
  /\ now = 0
  /\ store = [p \in Providers |-> Null]
  /\ pc = [c \in Calls |-> "idle"]
  /\ kind = [c \in Calls |-> "none"]
  /\ prov = [c \in Calls |-> "p1"]
  /\ maxRetries = [c \in Calls |-> Null]
  /\ retries = [c \in Calls |-> 0]
  /\ health = [c \in Calls |-> Null]
  /\ attempt = [c \in Calls |-> 0]
  /\ lastErr = [c \in Calls |-> Null]
  /\ curHealth = [c \in Calls |-> Null]
  /\ pending = [c \in Calls |-> Null]
  /\ ret = [c \in Calls |-> Null]
  /\ result = [c \in Calls |-> Null]
  /\ timer = [c \in Calls |-> FALSE]
  /\ httpCalls = [c \in Calls |-> 0]
  /\ thrown = [c \in Calls |-> Null]
  /\ sleeps = [c \in Calls |-> <<>>]
  /\ recS = [c \in Calls |-> 0]
  /\ recF = [c \in Calls |-> 0]
  /\ streak = [p \in Providers |-> 0]
  /\ gpc = "idle"
  /\ aggregation = "WEIGHTED"
  /\ providerSpecs = <<>>
  /\ running = {}
  /\ settled = <<>>
  /\ late = FALSE
  /\ final = Null
  /\ out = Null
  /\ playbook = <<>>
  /\ prev = Null
  /\ added = 0
  /\ providersWithHealth = [p \in Providers |-> Null]
  /\ activeProviders = {}
  /\ called = {}
  /\ error = Null
  /\ generations = 0
  /\ adding = [c \in Calls |-> Null]
  /\ callArgs = Null
  /\ request = Null

Init ==
  /\ Fresh
  /\ template = <<>>
  /\ templateVars = Null
  /\ rendered = Null

\* a free slot takes a new invocation
Begin(c, k, p, startPc) ==
  /\ pc[c] = "idle"
  /\ Bounded(p)
  /\ pc' = [pc EXCEPT ![c] = startPc]
  /\ kind' = [kind EXCEPT ![c] = k]
  /\ prov' = [prov EXCEPT ![c] = p]
  /\ UNCHANGED <<now, store, streak, health, attempt, lastErr, curHealth, ret,
                 result, timer, counters>>

\* the caller has taken the returned value: the invocation's locals are gone
Collect(c) ==
  /\ pc[c] = "done"
  /\ pc' = [pc EXCEPT ![c] = "idle"]
  /\ kind' = [kind EXCEPT ![c] = "none"]
  /\ prov' = [prov EXCEPT ![c] = "p1"]
  /\ maxRetries' = [maxRetries EXCEPT ![c] = Null]
  /\ retries' = [retries EXCEPT ![c] = 0]
  /\ health' = [health EXCEPT ![c] = Null]
  /\ attempt' = [attempt EXCEPT ![c] = 0]
  /\ lastErr' = [lastErr EXCEPT ![c] = Null]
  /\ curHealth' = [curHealth EXCEPT ![c] = Null]
  /\ pending' = [pending EXCEPT ![c] = Null]
  /\ ret' = [ret EXCEPT ![c] = Null]
  /\ result' = [result EXCEPT ![c] = Null]
  /\ httpCalls' = [httpCalls EXCEPT ![c] = 0]
  /\ thrown' = [thrown EXCEPT ![c] = Null]
  /\ sleeps' = [sleeps EXCEPT ![c] = <<>>]
  /\ recS' = [recS EXCEPT ![c] = 0]
  /\ recF' = [recF EXCEPT ![c] = 0]
  /\ UNCHANGED <<now, store, streak, timer>>

\* ----------------------------------------- adapter.call, llmService.ts
\* line 154: call(prompt) is invoked and suspends in getHealthStatus
CallStart(c, p, mr) ==
  /\ Begin(c, "call", p, "health")
  /\ maxRetries' = [maxRetries EXCEPT ![c] = mr]
  /\ retries' = [retries EXCEPT ![c] = RetriesOf(mr)]
  /\ UNCHANGED pending

Return(c, r) ==
  /\ pc' = [pc EXCEPT ![c] = "done"]
  /\ result' = [result EXCEPT ![c] = r]

\* lines 156-194: the health view arrives; refuse, or build the request
\* and send the first attempt
CallHealth(c) ==
  /\ pc[c] = "health"
  /\ kind[c] = "call"
  /\ LET h == getHealthStatus(store[prov[c]], prov[c], now)
     IN /\ health' = [health EXCEPT ![c] = h]
        /\ IF CircuitRefuses(h)
           THEN /\ Return(c, [providerId |-> prov[c], raw |-> Null, ok |-> FALSE,
                              error |-> CircuitOpenError(prov[c])])
                /\ UNCHANGED <<httpCalls, timer>>
           ELSE \* fetchWithTimeout line 10: setTimeout, then fetch is awaited
                /\ pc' = [pc EXCEPT ![c] = "fetch"]
                /\ httpCalls' = [httpCalls EXCEPT ![c] = @ + 1]
                /\ timer' = [timer EXCEPT ![c] = TRUE]
                /\ UNCHANGED result
  /\ UNCHANGED <<now, store, streak, kind, prov, maxRetries, retries, attempt, lastErr,
                 curHealth, pending, ret, thrown, sleeps, recS, recF>>

\* lines 228-236: catch (err), and the fall out of the loop into
\* recordFailure once the retries are used up
Catch(c, err) ==
  /\ lastErr' = [lastErr EXCEPT ![c] = NextLastErr(lastErr[c], err)]
  /\ attempt' = [attempt EXCEPT ![c] = @ + 1]
  /\ thrown' = [thrown EXCEPT ![c] = err]
  /\ timer' = [timer EXCEPT ![c] = FALSE]
  /\ IF ShouldRetry(attempt[c] + 1, retries[c])
     THEN /\ pc' = [pc EXCEPT ![c] = "sleep"]
          /\ sleeps' = [sleeps EXCEPT ![c] = Append(@, BackoffMs(attempt[c] + 1))]
          /\ UNCHANGED recF
     ELSE /\ pc' = [pc EXCEPT ![c] = "rf_read"]
          /\ recF' = [recF EXCEPT ![c] = @ + 1]
          /\ UNCHANGED sleeps
  /\ UNCHANGED <<now, store, streak, kind, prov, maxRetries, retries, health, curHealth,
                 pending, ret, result, httpCalls, recS>>

\* line 190: fetchWithTimeout rejects (abort by the timer, network error)
FetchReject(c, err) ==
  /\ pc[c] = "fetch"
  /\ Catch(c, err)

\* line 190: fetchWithTimeout resolves with the response; line 196 awaits the body
FetchResolve(c) ==
  /\ pc[c] = "fetch"
  /\ pc' = [pc EXCEPT ![c] = "body"]
  /\ timer' = [timer EXCEPT ![c] = FALSE]
  /\ UNCHANGED <<now, store, streak, kind, prov, maxRetries, retries, health, attempt, lastErr,
                 curHealth, pending, ret, result, counters>>

\* line 196: res.json() rejects
BodyReject(c) ==
  /\ pc[c] = "body"
  /\ Catch(c, BodyError)

\* lines 196-227: res.json() resolves with raw
BodyResolve(c, raw) ==
  /\ pc[c] = "body"
  /\ LET text == extractTextFromObject(raw)
         parsedJson == ParsedJson(text)
         validationResult == ParsedSignalSchema(parsedJson)
     IN IF parsedJson # Null
        THEN IF validationResult.success
             THEN \* line 215: recordSuccess(spec.id) builds its record and awaits the write
                  /\ pc' = [pc EXCEPT ![c] = "rs"]
                  /\ pending' = [pending EXCEPT ![c] =
                                   recordSuccessHealth(store[prov[c]], prov[c], now)]
                  /\ ret' = [ret EXCEPT ![c] =
                               [providerId |-> prov[c], raw |-> raw, ok |-> TRUE,
                                parsed |-> validationResult.data]]
                  /\ recS' = [recS EXCEPT ![c] = @ + 1]
                  /\ UNCHANGED <<result, recF>>
             ELSE \* line 220
                  /\ Return(c, [providerId |-> prov[c], raw |-> raw, ok |-> FALSE,
                                error |-> InvalidSchemaError])
                  /\ UNCHANGED <<pending, ret, recS, recF>>
        ELSE \* lines 225-226: recordFailure(spec.id) awaits its read
             /\ pc' = [pc EXCEPT ![c] = "rf_read"]
             /\ ret' = [ret EXCEPT ![c] =
                          [providerId |-> prov[c], raw |-> raw, ok |-> FALSE,
                           error |-> NoJsonError]]
             /\ recF' = [recF EXCEPT ![c] = @ + 1]
             /\ UNCHANGED <<result, pending, recS>>
  /\ UNCHANGED <<now, store, streak, kind, prov, maxRetries, retries, health, attempt, lastErr,
                 curHealth, timer, httpCalls, thrown, sleeps>>

\* line 231: the backoff sleep ends, the loop sends the next attempt
SleepDone(c) ==
  /\ pc[c] = "sleep"
  /\ pc' = [pc EXCEPT ![c] = "fetch"]
  /\ httpCalls' = [httpCalls EXCEPT ![c] = @ + 1]
  /\ timer' = [timer EXCEPT ![c] = TRUE]
  /\ UNCHANGED <<now, store, streak, kind, prov, maxRetries, retries, health, attempt, lastErr,
                 curHealth, pending, ret, result, thrown, sleeps, recS, recF>>

\* ---------------------------------------------- providerHealthStore.ts
\* what the invocation returns once its store call has resolved
AfterRecord_noError(c) ==
  IF kind[c] = "call"
  THEN IF ret[c] # Null THEN ret[c]
       ELSE [providerId |-> prov[c], raw |-> Null, ok |-> FALSE]
  ELSE Null

AfterRecord(c) ==
  IF kind[c] = "call"
  THEN IF ret[c] # Null THEN ret[c]
       ELSE \* line 237
            [providerId |-> prov[c], raw |-> Null, ok |-> FALSE,
             error |-> StringOf(lastErr[c])]
  ELSE Null

\* recordSuccess line 58: setHealthStatus writes the record
RecordSuccessWrite_oneKey(c) ==
  /\ pc[c] = "rs"
  /\ store' = [p \in Providers |-> pending[c]]
  /\ streak' = [streak EXCEPT ![prov[c]] = 0]
  /\ Return(c, AfterRecord(c))
  /\ UNCHANGED <<now, kind, prov, maxRetries, retries, health, attempt, lastErr, curHealth,
                 pending, ret, timer, counters>>

RecordSuccessWrite(c) ==
  /\ pc[c] = "rs"
  /\ store' = [store EXCEPT ![prov[c]] = pending[c]]
  /\ streak' = [streak EXCEPT ![prov[c]] = 0]
  /\ Return(c, AfterRecord(c))
  /\ UNCHANGED <<now, kind, prov, maxRetries, retries, health, attempt, lastErr, curHealth,
                 pending, ret, timer, counters>>

\* recordFailure lines 65-84: the read resolves, newHealth is computed
RecordFailureRead(c) ==
  /\ pc[c] = "rf_read"
  /\ LET currentHealth == getHealthStatus(store[prov[c]], prov[c], now)
     IN /\ curHealth' = [curHealth EXCEPT ![c] = currentHealth]
        /\ pending' = [pending EXCEPT ![c] =
                         recordFailureHealth(currentHealth, prov[c], now)]
  /\ pc' = [pc EXCEPT ![c] = "rf_write"]
  /\ UNCHANGED <<now, store, streak, kind, prov, maxRetries, retries, health, attempt, lastErr,
                 ret, result, timer, counters>>

\* recordFailure line 85: setHealthStatus writes newHealth
RecordFailureWrite(c) ==
  /\ pc[c] = "rf_write"
  /\ store' = [store EXCEPT ![prov[c]] = pending[c]]
  /\ streak' = [streak EXCEPT ![prov[c]] = IF @ < MaxStreak THEN @ + 1 ELSE @]
  /\ Return(c, AfterRecord(c))
  /\ UNCHANGED <<now, kind, prov, maxRetries, retries, health, attempt, lastErr, curHealth,
                 pending, ret, timer, counters>>

\* getHealthStatus(providerId) called by a hook or screen
GetHealthStatusStart(c, p) ==
  /\ Begin(c, "getHealthStatus", p, "health")
  /\ UNCHANGED <<maxRetries, retries, pending>>

GetHealthStatusReturn_persist(c) ==
  /\ pc[c] = "health"
  /\ kind[c] = "getHealthStatus"
  /\ health' = [health EXCEPT ![c] = getHealthStatus(store[prov[c]], prov[c], now)]
  /\ store' = [store EXCEPT ![prov[c]] = getHealthStatus(store[prov[c]], prov[c], now)]
  /\ Return(c, Null)
  /\ UNCHANGED <<now, streak, kind, prov, maxRetries, retries, attempt, lastErr,
                 curHealth, pending, ret, timer, counters>>

GetHealthStatusReturn(c) ==
  /\ pc[c] = "health"
  /\ kind[c] = "getHealthStatus"
  /\ health' = [health EXCEPT ![c] = getHealthStatus(store[prov[c]], prov[c], now)]
  /\ Return(c, Null)
  /\ UNCHANGED <<now, store, streak, kind, prov, maxRetries, retries, attempt, lastErr,
                 curHealth, pending, ret, timer, counters>>

\* recordSuccess(providerId) called on its own
RecordSuccessStart(c, p) ==
  /\ Begin(c, "recordSuccess", p, "rs")
  /\ pending' = [pending EXCEPT ![c] = recordSuccessHealth(store[p], p, now)]
  /\ UNCHANGED <<maxRetries, retries>>

\* recordFailure(providerId) called on its own
RecordFailureStart(c, p) ==
  /\ Begin(c, "recordFailure", p, "rf_read")
  /\ UNCHANGED <<maxRetries, retries, pending>>

\* Date.now() advances.  AsyncStorage round trips are short against the
\* clock's resolution: no time passes while one is outstanding.
Tick(d) ==
  /\ now + d <= MaxTime
  /\ \A c \in Calls : pc[c] \in {"idle", "done", "fetch", "body", "sleep"}
  /\ now' = now + d
  /\ UNCHANGED <<store, streak, locals, counters>>

\* ------------------------------------------------------ specifications
\* the steps of invocations already in flight
Step ==
  \/ \E c \in Calls : CallHealth(c)
  \/ \E c \in Calls : \E err \in FetchErrors : FetchReject(c, err)
  \/ \E c \in Calls : FetchResolve(c)
  \/ \E c \in Calls : BodyReject(c)
  \/ \E c \in Calls : \E raw \in Bodies : BodyResolve(c, raw)
  \/ \E c \in Calls : SleepDone(c)
  \/ \E c \in Calls : RecordSuccessWrite(c)
  \/ \E c \in Calls : RecordFailureRead(c)
  \/ \E c \in Calls : RecordFailureWrite(c)
  \/ \E c \in Calls : GetHealthStatusReturn(c)
  \/ \E c \in Calls : Collect(c)
  \/ \E d \in TickSteps : Tick(d)

\* no other invocation is in flight
Alone(c) == \A d \in Calls \ {c} : pc[d] = "idle"

\* invocations do not overlap: each is awaited before the next starts
SeqNext ==
  \/ \E c \in Calls, p \in Providers : \E mr \in MaxRetriesChoices :
        Alone(c) /\ CallStart(c, p, mr) /\ UNCHANGED <<gvars, rest>>
  \/ \E c \in Calls, p \in Providers :
        Alone(c) /\ GetHealthStatusStart(c, p) /\ UNCHANGED <<gvars, rest>>
  \/ \E c \in Calls, p \in Providers :
        Alone(c) /\ RecordSuccessStart(c, p) /\ UNCHANGED <<gvars, rest>>
  \/ \E c \in Calls, p \in Providers :
        Alone(c) /\ RecordFailureStart(c, p) /\ UNCHANGED <<gvars, rest>>
  \/ Step /\ UNCHANGED <<gvars, rest>>

SeqSpec == Init /\ [][SeqNext]_vars

\* the provider whose record the overlapping invocations contend for
Contended == {"p1"}

\* the store's three functions called directly, overlapping at every await
StoreNext ==
  /\ \/ \E c \in Calls, p \in Contended : GetHealthStatusStart(c, p)
     \/ \E c \in Calls, p \in Contended : RecordSuccessStart(c, p)
     \/ \E c \in Calls, p \in Contended : RecordFailureStart(c, p)
     \/ \E c \in Calls : RecordSuccessWrite(c)
     \/ \E c \in Calls : RecordFailureRead(c)
     \/ \E c \in Calls : RecordFailureWrite(c)
     \/ \E c \in Calls : GetHealthStatusReturn(c)
     \/ \E c \in Calls : Collect(c)
     \/ \E d \in TickSteps : Tick(d)
  /\ UNCHANGED <<gvars, rest>>

StoreSpec == Init /\ [][StoreNext]_vars

\* the bodies the providers of a parallel dispatch answer with: a valid
\* signal, a schema-invalid object, no JSON at all
DispatchBodies == {BodyFull, BodyBadSchema, BodyProse}

\* the adapter calls of one orchestration run, each slot calling a provider
\* of its own (signalService.ts line 57), interleaved at every await
DispatchNext ==
  /\ \/ \E c \in Calls, p \in Providers :
          /\ \A d \in Calls \ {c} : pc[d] = "idle" \/ prov[d] # p
          /\ CallStart(c, p, Null)
     \/ \E c \in Calls : CallHealth(c)
     \/ \E c \in Calls : FetchReject(c, NetworkError)
     \/ \E c \in Calls : FetchResolve(c)
     \/ \E c \in Calls : BodyReject(c)
     \/ \E c \in Calls : \E raw \in DispatchBodies : BodyResolve(c, raw)
     \/ \E c \in Calls : SleepDone(c)
     \/ \E c \in Calls : RecordSuccessWrite(c)
     \/ \E c \in Calls : RecordFailureRead(c)
     \/ \E c \in Calls : RecordFailureWrite(c)
     \/ \E c \in Calls : Collect(c)
     \/ \E d \in TickSteps : Tick(d)
  /\ UNCHANGED <<gvars, rest>>

DispatchSpec == Init /\ [][DispatchNext]_vars

\* recordFailure alone, its invocations overlapping at every await, and no
\* recordSuccess
FailuresNext ==
  /\ \/ \E c \in Calls, p \in Contended : RecordFailureStart(c, p)
     \/ \E c \in Calls : RecordFailureRead(c)
     \/ \E c \in Calls : RecordFailureWrite(c)
     \/ \E c \in Calls : Collect(c)
     \/ \E d \in TickSteps : Tick(d)
  /\ UNCHANGED <<gvars, rest>>

FailuresSpec == Init /\ [][FailuresNext]_vars

\* ------------------------------------------------------ signalService.ts
\* generateTradingSignal of app/services/signalService.ts.  Its numbers are
\* non-negative rationals [n, d] in lowest terms: the quotients and means
\* the code computes are kept exact.

DEFAULT_CONFIDENCE == 50

DEFAULT_POSITION_RISK == 2

MAX_SIGNALS == 500

\* Most provider specs one run is given.
MaxAdapters == 3

SpecIds == <<"p1", "p2", "p3", "p4", "p5">>

AggregationModes == {"MAJORITY", "WEIGHTED", "FIRST"}

\* uuidv4() returns one of these
Uuids == {"uuid-a", "uuid-b"}

Symbol == "BTCUSDT"

\* what fetchMultiTimeframeData resolved with
Mtf == [summary |-> "1h: UPTREND"]

RECURSIVE Gcd(_, _)
Gcd(a, b) == IF b = 0 THEN a ELSE Gcd(b, a % b)

Rat(n, d) == [n |-> n \div Gcd(n, d), d |-> d \div Gcd(n, d)]

Zero == Rat(0, 1)

\* a JSON number as a number of the aggregation
RatOf(v) == Rat(v.num, Den(v))

RatAdd(a, b) == Rat(a.n * b.d + b.n * a.d, a.d * b.d)

RatDivInt(a, k) == Rat(a.n, a.d * k)

RatMulInt(a, k) == Rat(a.n * k, a.d)

\* Math.abs(a - b)
RatAbsDiff(a, b) ==
  LET x == a.n * b.d - b.n * a.d
  IN Rat(IF x < 0 THEN 0 - x ELSE x, a.d * b.d)

\* a / b, b not zero
RatDiv(a, b) == Rat(a.n * b.d, a.d * b.n)

RatLess(a, b) == a.n * b.d < b.n * a.d

\* Math.round: the nearest integer, a half goes up
MathRound_floor(x) == x.n \div x.d

MathRound(x) == (2 * x.n + x.d) \div (2 * x.d)

RECURSIVE SumOf(_)
SumOf(arr) == IF arr = <<>> THEN Zero ELSE RatAdd(arr[1], SumOf(Tail(arr)))

\* line 82: const avg
avg(arr) == IF Len(arr) > 0 THEN RatDivInt(SumOf(arr), Len(arr)) ELSE Zero

\* line 58: the filter (r) => r.ok && r.parsed
IsParsed(r) == r.ok /\ Has(r, "parsed")

ParsedOf_firstOnly(providerResponses) ==
  SelectSeq(SubSeq(providerResponses, 1, 1), IsParsed)

ParsedOf(providerResponses) == SelectSeq(providerResponses, IsParsed)

\* line 60: parsed.length === 0
NoneParsed_one(parsed) == Len(parsed) <= 1

NoneParsed(parsed) == Len(parsed) = 0

\* line 66: p.parsed.type || 'HOLD'
VoteOf_hold(p) == "HOLD"

VoteOf(p) == IF Has(p.parsed, "type") THEN p.parsed.type.str ELSE "HOLD"

\* line 69: it.parsed.confidence ?? 50
ConfidenceOf(p) ==
  IF Has(p.parsed, "confidence")
  THEN RatOf(p.parsed.confidence)
  ELSE Rat(DEFAULT_CONFIDENCE, 1)

\* groups is the object of line 64, as the sequence of its entries in the
\* order their keys were inserted (the order of Object.keys)
KeyIdx(groups, t) == {i \in 1..Len(groups) : groups[i].key = t}

\* line 69: the reduce over items, divided by items.length
AvgConf(items) ==
  RatDivInt(SumOf([i \in 1..Len(items) |-> ConfidenceOf(items[i])]), Len(items))

\* lines 66-69: one turn of parsed.forEach
AddToGroups(groups, p) ==
  LET t == VoteOf(p)
  IN IF KeyIdx(groups, t) = {}
     THEN Append(groups, [key |-> t, items |-> <<p>>, avgConf |-> AvgConf(<<p>>)])
     ELSE LET i == CHOOSE i \in KeyIdx(groups, t) : TRUE
              items == Append(groups[i].items, p)
          IN [groups EXCEPT ![i] = [key |-> t, items |-> items,
                                    avgConf |-> AvgConf(items)]]

RECURSIVE GroupsOf(_)
GroupsOf(parsed) ==
  IF parsed = <<>> THEN <<>>
  ELSE AddToGroups(GroupsOf(SubSeq(parsed, 1, Len(parsed) - 1)), parsed[Len(parsed)])

\* groups[t]: the entry, or undefined
Group(groups, t) ==
  IF KeyIdx(groups, t) = {} THEN Null
  ELSE groups[CHOOSE i \in KeyIdx(groups, t) : TRUE]

\* Object.keys(groups).sort((a, b) => score(b) - score(a))[0], scores
\* holding the score of each entry: the sort is stable, so the first key
\* is the earliest inserted of the largest score; of an empty array it is
\* undefined
SortFirst_last(groups, scores) ==
  IF groups = <<>> THEN "undefined"
  ELSE groups[Max({i \in 1..Len(groups) :
                     \A j \in 1..Len(groups) :
                       ~RatLess(scores[i], scores[j])})].key

SortFirst(groups, scores) ==
  IF groups = <<>> THEN "undefined"
  ELSE groups[Min({i \in 1..Len(groups) :
                     \A j \in 1..Len(groups) :
                       ~RatLess(scores[i], scores[j])})].key

\* line 74: groups[k].items.length
MajorityScore_conf(g) == g.avgConf

MajorityScore(g) == Rat(Len(g.items), 1)

\* line 76: groups[k].items.length * groups[k].avgConf
WeightedScore_count(g) == Rat(Len(g.items), 1)

WeightedScore(g) == RatMulInt(g.avgConf, Len(g.items))

\* line 78: (parsed[0].parsed.type as SignalType) || 'HOLD'
FirstType_noDefault(parsed) ==
  IF Has(parsed[1].parsed, "type") THEN parsed[1].parsed.type.str ELSE "undefined"

FirstType(parsed) ==
  IF Has(parsed[1].parsed, "type") THEN parsed[1].parsed.type.str ELSE "HOLD"

\* lines 72-79: winnerType
WinnerType(mode, groups, parsed) ==
  IF mode = "MAJORITY"
  THEN SortFirst(groups, [i \in 1..Len(groups) |-> MajorityScore(groups[i])])
  ELSE IF mode = "WEIGHTED"
  THEN SortFirst(groups, [i \in 1..Len(groups) |-> WeightedScore(groups[i])])
  ELSE FirstType(parsed)

\* lines 84-86: items.map(p => p.parsed[k]).filter(Number.isFinite)
RECURSIVE Supplied_zero(_, _)
Supplied_zero(items, k) ==
  IF items = <<>> THEN <<>>
  ELSE <<IF Has(items[1].parsed, k) THEN RatOf(items[1].parsed[k]) ELSE Zero>>
         \o Supplied_zero(Tail(items), k)

RECURSIVE Supplied(_, _)
Supplied(items, k) ==
  IF items = <<>> THEN <<>>
  ELSE (IF Has(items[1].parsed, k) THEN <<RatOf(items[1].parsed[k])>> ELSE <<>>)
         \o Supplied(Tail(items), k)

\* line 104: p.parsed.reasoning || 'No reasoning provided.'
ReasoningOf(p) ==
  IF Has(p.parsed, "reasoning") /\ p.parsed.reasoning.str # ""
  THEN p.parsed.reasoning.str
  ELSE "No reasoning provided."

\* lines 108-112: the ratio written into final.riskMetrics
RiskRewardRatio(price, stopLoss, takeProfit) ==
  IF price.n # 0 /\ stopLoss.n # 0
  THEN LET risk == RatAbsDiff(price, stopLoss)
           reward == RatAbsDiff(takeProfit, price)
       IN IF risk.n > 0
          THEN Rat(MathRound(RatMulInt(RatDiv(reward, risk), 100)), 100)
          ELSE Zero
  ELSE Zero

\* lines 84-112: const final; reasoning is the sequence that join() glues
\* with the separator
FinalSignal(uuid, winnerType, winnerGroup, t) ==
  LET entry == avg(Supplied(winnerGroup.items, "price"))
      stopLoss == avg(Supplied(winnerGroup.items, "stopLoss"))
      takeProfit == avg(Supplied(winnerGroup.items, "takeProfit"))
  IN [id |-> uuid,
      symbol |-> Symbol,
      type |-> winnerType,
      confidence |-> MathRound(winnerGroup.avgConf),
      price |-> entry,
      timestamp |-> t,
      strategy |-> "dynamic-llm-consensus",
      indicators |-> [mtf |-> Mtf],
      riskMetrics |-> [stopLoss |-> stopLoss,
                       takeProfit |-> takeProfit,
                       riskRewardRatio |-> RiskRewardRatio(entry, stopLoss, takeProfit),
                       positionSizePercent |-> DEFAULT_POSITION_RISK],
      reasoning |-> [i \in 1..Len(winnerGroup.items) |-> ReasoningOf(winnerGroup.items[i])],
      status |-> "NEW"]

\* playbookService.ts savePlaybook: list.slice(-MAX_SIGNALS)
SliceLast_first(list, k) ==
  IF Len(list) <= k THEN list ELSE SubSeq(list, 1, k)

SliceLast(list, k) ==
  IF Len(list) <= k THEN list ELSE SubSeq(list, Len(list) - k + 1, Len(list))

\* playbookService.ts addSignalToPlaybook
addSignalToPlaybook(list, item) == SliceLast(Append(list, item), MAX_SIGNALS)

\* addSignalToPlaybook calls made one after the other, up to MaxAdds of them
MaxAdds == 502

\* the SignalHistory handed to call number n, told apart by its id
SignalNo(n) == [id |-> n, symbol |-> Symbol, status |-> "NEW"]

\* playbookService.ts lines 31-35: loadPlaybook, push, savePlaybook
AddSignal ==
  /\ added < MaxAdds
  /\ playbook' = addSignalToPlaybook(playbook, SignalNo(added + 1))
  /\ added' = added + 1

PlaybookNext ==
  AddSignal
  /\ UNCHANGED <<avars, gpc, aggregation, providerSpecs, running, settled, late, final, out,
                 prev, template, templateVars, rendered, adding, hvars, qvars>>

PlaybookSpec == Init /\ [][PlaybookNext]_vars

\* overlapping addSignalToPlaybook calls: at most MaxOverlapped are made
MaxOverlapped == 4

\* line 31: addSignalToPlaybook(item) is invoked and awaits loadPlaybook
AddStart(c) ==
  /\ adding[c] = Null
  /\ added < MaxOverlapped
  /\ adding' = [adding EXCEPT ![c] = [item |-> SignalNo(added + 1), list |-> Null]]
  /\ added' = added + 1
  /\ UNCHANGED playbook

\* lines 16-24, 32: loadPlaybook resolves with the stored list
AddLoaded(c) ==
  /\ adding[c] # Null
  /\ adding[c].list = Null
  /\ adding' = [adding EXCEPT ![c] = [item |-> adding[c].item, list |-> [l |-> playbook]]]
  /\ UNCHANGED <<added, playbook>>

\* lines 33-34, 26-29: push, then savePlaybook writes the last MAX_SIGNALS
AddSaved(c) ==
  /\ adding[c] # Null
  /\ adding[c].list # Null
  /\ playbook' = SliceLast(Append(adding[c].list.l, adding[c].item), MAX_SIGNALS)
  /\ adding' = [adding EXCEPT ![c] = Null]
  /\ UNCHANGED added

OverlapNext ==
  /\ \/ \E c \in Calls : AddStart(c)
     \/ \E c \in Calls : AddLoaded(c)
     \/ \E c \in Calls : AddSaved(c)
  /\ UNCHANGED <<avars, gpc, aggregation, providerSpecs, running, settled, late, final, out,
                 prev, template, templateVars, rendered, hvars, qvars>>

OverlapSpec == Init /\ [][OverlapNext]_vars

\* ------------------------------------------ renderTemplate, llmService.ts
\* A string is the sequence of its characters; the word "constructor" and
\* the texts of values stand for their characters, none of which is a
\* brace or white space.  A value is a string [str |-> ..], undefined, or
\* a function object.
Undefined == [undefined |-> TRUE]

\* Object.prototype.constructor, which every object literal inherits
ObjectFunction == [function |-> "Object"]

\* String(Object): the engine's rendering of a native function
FunctionSource ==
  <<"function", " ", "Object()", " ", "{", " ", "[native", " ", "code]", " ", "}">>

\* the pieces the templates are put together from
Pieces ==
  {<<"{", "{">>, <<"}", "}">>, <<" ">>, <<"a">>, <<"constructor">>}

\* the templates are made of at most MaxPieces pieces
MaxPieces == 6

RECURSIVE TemplatesOf(_)
TemplatesOf(n) ==
  IF n = 0 THEN {<<>>}
  ELSE LET shorter == TemplatesOf(n - 1)
       IN shorter \cup {t \o p : t \in shorter, p \in Pieces}

\* vars: no key at all, the key a with a plain value, the key a with a
\* value that itself reads as a placeholder
VarsChoices ==
  {<<>>,
   [k \in {<<"a">>} |-> [str |-> <<"v">>]],
   [k \in {<<"a">>} |-> [str |-> <<"{", "{", "a", "}", "}">>]]}

\* String.prototype.trim
RECURSIVE Trim(_)
Trim(key) ==
  IF key = <<>> THEN key
  ELSE IF Head(key) = " " THEN Trim(Tail(key))
  ELSE IF key[Len(key)] = " " THEN Trim(SubSeq(key, 1, Len(key) - 1))
  ELSE key

\* vars[k]: an own property, or one inherited from Object.prototype
PropertyOf(v, k) ==
  IF k \in DOMAIN v THEN v[k]
  ELSE IF k = <<"constructor">> THEN ObjectFunction
  ELSE Undefined

\* line 140: String(vars[k] ?? '')
Replacement(v, key) ==
  LET value == PropertyOf(v, Trim(key))
  IN IF value = Undefined THEN <<>>
     ELSE IF value = ObjectFunction THEN FunctionSource
     ELSE value.str

\* where a match of \{\{(.+?)\}\} that starts at i can end: at the first
\* of these, the group being lazy and at least one character long
MatchEnds(s, i) ==
  IF i + 1 <= Len(s)
  THEN IF s[i] = "{" /\ s[i + 1] = "{"
       THEN {j \in (i + 3)..(Len(s) - 1) : s[j] = "}" /\ s[j + 1] = "}"}
       ELSE {}
  ELSE {}

\* String.prototype.replace with the g flag, from position i on: matches
\* are taken left to right, and the scan resumes after each match
RECURSIVE ReplaceFrom(_, _, _)
ReplaceFrom(s, v, i) ==
  IF i > Len(s) THEN <<>>
  ELSE IF MatchEnds(s, i) = {} THEN <<s[i]>> \o ReplaceFrom(s, v, i + 1)
  ELSE LET j == Min(MatchEnds(s, i))
       IN Replacement(v, SubSeq(s, i + 2, j - 1)) \o ReplaceFrom(s, v, j + 2)

\* lines 137-142
renderTemplate(s, v) == ReplaceFrom(s, v, 1)

\* a call of renderTemplate with any template and vars
RenderInit ==
  /\ Fresh
  /\ template \in TemplatesOf(MaxPieces)
  /\ templateVars \in VarsChoices
  /\ rendered = Null

Render ==
  /\ rendered = Null
  /\ rendered' = [str |-> renderTemplate(template, templateVars)]
  /\ UNCHANGED <<template, templateVars>>

\* the string returned is rendered again with the same vars
RenderAgain ==
  /\ rendered # Null
  /\ rendered.str # template
  /\ template' = rendered.str
  /\ rendered' = Null
  /\ UNCHANGED templateVars

RenderNext ==
  \/ Render /\ UNCHANGED <<avars, gvars, prev, added, adding, hvars, qvars>>
  \/ RenderAgain /\ UNCHANGED <<avars, gvars, prev, added, adding, hvars, qvars>>

RenderSpec == RenderInit /\ [][RenderNext]_vars

\* ------------------------------ adapter.call builds its request
\* llmService.ts lines 166-180.  Strings are sequences of characters as for
\* renderTemplate; names and literal text stand for their characters.
Placeholder(name) == <<"{", "{">> \o name \o <<"}", "}">>

\* spec.headers: no header, or an Authorization header that names a secret
\* or an extra value
HeaderTemplates ==
  {Null,
   <<"Bearer", " ">> \o Placeholder(<<"API_KEY">>),
   Placeholder(<<" ", "API_KEY", " ">>),
   <<"t=">> \o Placeholder(<<"temperature">>) \o <<";k=">> \o Placeholder(<<"API_KEY">>)}

\* line 179: JSON.stringify({ prompt: '{{prompt}}', model: '{{model}}' })
DefaultRequestTemplate ==
  <<"{", "\"prompt\":\"">> \o Placeholder(<<"prompt">>) \o <<"\",\"model\":\"">>
    \o Placeholder(<<"model">>) \o <<"\"", "}">>

\* spec.requestTemplate: absent, or a body that names the secret, or one
\* that names an extra value
RequestTemplates ==
  {Null,
   <<"{", "\"key\":\"">> \o Placeholder(<<"API_KEY">>) \o <<"\",\"prompt\":\"">>
     \o Placeholder(<<"prompt">>) \o <<"\"", "}">>,
   <<"{", "\"t\":\"">> \o Placeholder(<<"temperature">>) \o <<"\",\"model\":\"">>
     \o Placeholder(<<"model">>) \o <<"\"", "}">>}

\* getProviderSecrets(spec.id): nothing stored, or the API key
SecretsChoices == {Null, [k \in {<<"API_KEY">>} |-> [str |-> <<"sk-1">>]]}

\* extra: nothing, a sampling temperature, or that and a model that
\* replaces the spec's
ExtraChoices ==
  {<<>>,
   [k \in {<<"temperature">>} |-> [str |-> <<"0.2">>]],
   [k \in {<<"temperature">>, <<"model">>} |->
      [str |-> IF k = <<"model">> THEN <<"m-2">> ELSE <<"0.7">>]]}

ModelChoices == {Null, [str |-> <<"m-1">>]}

Prompt == [str |-> <<"Analyze", " ", "BTCUSDT">>]

\* { ...a, ...b }
Spread(a, b) ==
  [k \in DOMAIN a \cup DOMAIN b |-> IF k \in DOMAIN b THEN b[k] ELSE a[k]]

\* line 166: getProviderSecrets(spec.id) || {}
OrEmpty(v) == IF v = Null THEN <<>> ELSE v

\* line 173: the vars of a header: { ...secrets, ...extra }
HeaderVars(secrets, extra) == Spread(OrEmpty(secrets), extra)

\* line 180: the vars of the body: { prompt, model: spec.model ?? '', ...extra }
BodyVars(secrets, extra, model) ==
  Spread([k \in {<<"prompt">>, <<"model">>} |->
            IF k = <<"prompt">> THEN Prompt
            ELSE IF model = Null THEN [str |-> <<>>] ELSE model],
         extra)

\* lines 166-180 of call(prompt, extra)
BuildRequest(headerT, requestT, secrets, extra, model) ==
  /\ callArgs' = [headers |-> headerT, requestTemplate |-> requestT,
                  secrets |-> secrets, extra |-> extra, model |-> model]
  /\ request' =
       [headers |-> IF headerT = Null THEN Null
                    ELSE [str |-> renderTemplate(headerT, HeaderVars(secrets, extra))],
        bodyText |-> [str |-> renderTemplate(
                                IF requestT = Null THEN DefaultRequestTemplate ELSE requestT,
                                BodyVars(secrets, extra, model))]]

RequestNext ==
  \E headerT \in HeaderTemplates, requestT \in RequestTemplates,
     secrets \in SecretsChoices, extra \in ExtraChoices, model \in ModelChoices :
    /\ BuildRequest(headerT, requestT, secrets, extra, model)
    /\ UNCHANGED <<avars, gvars, prev, added, template, templateVars, rendered, adding, hvars>>

RequestSpec == Init /\ [][RequestNext]_vars

\* ------------------------------------------ hooks/useSignalGenerator.ts
\* generate() is called at most MaxGenerations times
MaxGenerations == 5

\* how the call of one provider ends inside generateTradingSignal: a
\* validated signal (recordSuccess), a transport or no-JSON failure
\* (recordFailure), a schema-invalid answer (no record)
Outcomes == {"success", "failure", "invalid"}

\* lines 45-55: refreshProviders, on mount and whenever a screen calls it
Observed(records, t) == [p \in Providers |-> getHealthStatus(records[p], p, t)]

RefreshProviders ==
  /\ providersWithHealth' = Observed(store, now)
  /\ UNCHANGED <<now, store, streak, activeProviders, called, error, generations>>

\* lines 66-68: providersWithHealth.filter(p => p.health.state !== 'OPEN')
ActiveOf(withHealth) ==
  {p \in Providers :
     IF withHealth[p] = Null THEN FALSE ELSE withHealth[p].state # "OPEN"}

\* the record adapter.call leaves for p (llmService.ts lines 156-236)
RecordAfterCall(raw, p, outcome, t) ==
  IF outcome = "success" THEN recordSuccessHealth(raw, p, t)
  ELSE IF outcome = "failure"
  THEN recordFailureHealth(getHealthStatus(raw, p, t), p, t)
  ELSE raw

\* lines 61-94: generate(symbol, aggregation), with the refreshProviders
\* it starts once generateTradingSignal has returned or thrown
Generate(outcome) ==
  /\ generations < MaxGenerations
  /\ generations' = generations + 1
  /\ LET active == ActiveOf(providersWithHealth)
         attempted == {p \in active : ~CircuitRefuses(getHealthStatus(store[p], p, now))}
     IN /\ activeProviders' = active
        /\ called' = attempted
        /\ IF active = {}
           THEN /\ error' = [str |-> "No healthy LLM providers available."]
                /\ UNCHANGED <<store, streak, providersWithHealth>>
           ELSE /\ error' = Null
                /\ store' = [p \in Providers |->
                               IF p \in attempted
                               THEN RecordAfterCall(store[p], p, outcome[p], now)
                               ELSE store[p]]
                /\ streak' = [p \in Providers |->
                                IF p \in attempted /\ outcome[p] = "success" THEN 0
                                ELSE IF p \in attempted /\ outcome[p] = "failure"
                                          /\ streak[p] < MaxStreak
                                THEN streak[p] + 1
                                ELSE streak[p]]
                /\ providersWithHealth' = Observed(store', now)
  /\ UNCHANGED now

HookNext ==
  \/ RefreshProviders
       /\ UNCHANGED <<locals, counters, gvars, prev, added, template, templateVars,
                      rendered, adding, qvars>>
  \/ \E outcome \in [Providers -> Outcomes] :
       Generate(outcome)
       /\ UNCHANGED <<locals, counters, gvars, prev, added, template, templateVars,
                      rendered, adding, qvars>>
  \/ \E d \in TickSteps : Tick(d) /\ UNCHANGED <<gvars, rest>>

HookSpec == Init /\ [][HookNext]_vars

\* ------------------------------------------ what the adapters answer
ObjBuy60 ==
  [type |-> [str |-> "BUY"], confidence |-> [num |-> 60],
   price |-> [num |-> 50200], takeProfit |-> [num |-> 51200],
   reasoning |-> [str |-> "momentum"]]

ObjSell90 ==
  [type |-> [str |-> "SELL"], confidence |-> [num |-> 90],
   price |-> [num |-> 49800], stopLoss |-> [num |-> 50500]]

ObjSell35 ==
  [type |-> [str |-> "SELL"], confidence |-> [num |-> 35],
   price |-> [num |-> 49900], stopLoss |-> [num |-> 50400],
   takeProfit |-> [num |-> 48900]]

ObjHold == [type |-> [str |-> "HOLD"], confidence |-> [num |-> 100]]

ObjNoType == [price |-> [num |-> 50100], stopLoss |-> [num |-> 49500]]

BodyBuy60 == [text |-> JsonText("", ObjBuy60)]

BodySell90 == [text |-> JsonText("", ObjSell90)]

BodySell35 == [text |-> JsonText("", ObjSell35)]

BodyHold == [text |-> JsonText("", ObjHold)]

BodyNoType == [text |-> JsonText("", ObjNoType)]

SignalBodies ==
  {BodyFull, BodyPartial, BodyBuy60, BodySell90, BodySell35, BodyHold, BodyNoType}

\* llmService.ts lines 197-227: the response call() builds from a body
BodyResponse(id, raw) ==
  LET text == extractTextFromObject(raw)
      parsedJson == ParsedJson(text)
      validationResult == ParsedSignalSchema(parsedJson)
  IN IF parsedJson # Null
     THEN IF validationResult.success
          THEN [providerId |-> id, raw |-> raw, ok |-> TRUE,
                parsed |-> validationResult.data]
          ELSE [providerId |-> id, raw |-> raw, ok |-> FALSE,
                error |-> InvalidSchemaError]
     ELSE [providerId |-> id, raw |-> raw, ok |-> FALSE, error |-> NoJsonError]

\* llmService.ts lines 154-238: every response call() can return, over the
\* given bodies and transport errors
CallResponses(id, bodies, errors) ==
  {[providerId |-> id, raw |-> Null, ok |-> FALSE, error |-> CircuitOpenError(id)]}
  \cup {[providerId |-> id, raw |-> Null, ok |-> FALSE, error |-> StringOf(e)] :
          e \in errors}
  \cup {BodyResponse(id, raw) : raw \in bodies}

\* the answers of one adapter in a run: refused by the circuit, failed in
\* transport, schema-invalid, without JSON, or a signal
AdapterResponses(id) ==
  CallResponses(id, SignalBodies \cup {BodyBadSchema, BodyNoText}, {NetworkError})

\* ------------------------------------------- generateTradingSignal
\* Promise.all keeps each value at the index of its promise
Settle_push(values, i, r) ==
  LET free == {j \in 1..Len(values) : values[j] = Null}
  IN [values EXCEPT ![Min(free)] = r]

Settle(values, i, r) == [values EXCEPT ![i] = r]

\* lines 42-57: market data and past examples are fetched, the prompt is
\* built, one adapter per spec is built and every call is started
GenStart(mode, n) ==
  /\ gpc = "idle"
  /\ gpc' = "all"
  /\ aggregation' = mode
  /\ providerSpecs' = SubSeq(SpecIds, 1, n)
  /\ running' = 1..n
  /\ settled' = [i \in 1..n |-> Null]
  /\ UNCHANGED <<late, final, out, playbook>>

\* line 57: the call of adapter i returns r, in any order
AdapterSettles(i, r) ==
  /\ gpc = "all"
  /\ i \in running
  /\ running' = running \ {i}
  /\ settled' = Settle(settled, i, r)
  /\ late' = (late \/ \E j \in running : j < i)
  /\ UNCHANGED <<gpc, aggregation, providerSpecs, final, out, playbook>>

\* lines 57-115: Promise.all resolves; the run returns without a signal,
\* or builds final and awaits addSignalToPlaybook; reading .items of an
\* undefined winnerGroup throws
AllResolved(uuid) ==
  /\ gpc = "all"
  /\ running = {}
  /\ LET providerResponses == settled
         parsed == ParsedOf(providerResponses)
         groups == GroupsOf(parsed)
         winnerType == WinnerType(aggregation, groups, parsed)
         winnerGroup == Group(groups, winnerType)
     IN IF NoneParsed(parsed)
        THEN /\ gpc' = "done"
             /\ out' = [providerResponses |-> providerResponses, mtf |-> Mtf]
             /\ UNCHANGED final
        ELSE IF winnerGroup = Null
        THEN /\ gpc' = "threw"
             /\ UNCHANGED <<final, out>>
        ELSE /\ gpc' = "playbook"
             /\ final' = FinalSignal(uuid, winnerType, winnerGroup, now)
             /\ UNCHANGED out
  /\ UNCHANGED <<aggregation, providerSpecs, running, settled, late, playbook>>

\* lines 114-117: the playbook write resolves, the run returns
PlaybookSaved ==
  /\ gpc = "playbook"
  /\ playbook' = addSignalToPlaybook(playbook,
                   [id |-> final.id, signal |-> final, outcome |-> "PENDING",
                    entryPrice |-> final.price])
  /\ out' = [final |-> final, providerResponses |-> settled, mtf |-> Mtf]
  /\ gpc' = "done"
  /\ UNCHANGED <<aggregation, providerSpecs, running, settled, late, final>>

GenNext ==
  \/ \E mode \in AggregationModes, n \in 1..MaxAdapters :
        GenStart(mode, n) /\ UNCHANGED <<avars, rest>>
  \/ \E i \in 1..MaxAdapters : \E r \in AdapterResponses(SpecIds[i]) :
        AdapterSettles(i, r) /\ UNCHANGED <<avars, rest>>
  \/ \E uuid \in Uuids : AllResolved(uuid) /\ UNCHANGED <<avars, rest>>
  \/ PlaybookSaved /\ UNCHANGED <<avars, rest>>

GenSpec == Init /\ [][GenNext]_vars

\* --------------------------------- the same run made a second time
\* a signal with a fractional confidence and price: 72.5 and 1234.5
ObjHalf ==
  [type |-> [str |-> "SELL"], confidence |-> [num |-> 145, den |-> 2],
   price |-> [num |-> 2469, den |-> 2]]

BodyHalf == [text |-> JsonText("", ObjHalf)]

\* the answers of one adapter in a run that is made twice
RerunResponses(id) ==
  CallResponses(id, {BodyFull, BodySell35, BodyNoType, BodyHalf, BodyNoText}, {})

\* generateTradingSignal is called again with the same symbol, specs and
\* mode (lines 42-57), what the first run returned being kept for comparison
GenAgain ==
  /\ gpc = "done"
  /\ prev = Null
  /\ prev' = [out |-> out, late |-> late]
  /\ gpc' = "all"
  /\ running' = 1..Len(providerSpecs)
  /\ settled' = [i \in 1..Len(providerSpecs) |-> Null]
  /\ late' = FALSE
  /\ final' = Null
  /\ out' = Null
  /\ UNCHANGED <<aggregation, providerSpecs, playbook>>

\* the response the provider gave in the first run
EarlierResponse(id) ==
  LET list == prev.out.providerResponses
  IN list[CHOOSE j \in 1..Len(list) : list[j].providerId = id]

\* two runs with the same arguments; in the second every provider answers
\* as it did in the first, the calls settling in any order again
RerunNext ==
  \/ \E mode \in AggregationModes, n \in 1..MaxAdapters :
        GenStart(mode, n) /\ UNCHANGED <<avars, rest>>
  \/ \E i \in 1..MaxAdapters : \E r \in RerunResponses(SpecIds[i]) :
        prev = Null /\ AdapterSettles(i, r) /\ UNCHANGED <<avars, rest>>
  \/ \E i \in 1..MaxAdapters :
        prev # Null /\ AdapterSettles(i, EarlierResponse(SpecIds[i]))
          /\ UNCHANGED <<avars, rest>>
  \/ \E uuid \in Uuids : AllResolved(uuid) /\ UNCHANGED <<avars, rest>>
  \/ PlaybookSaved /\ UNCHANGED <<avars, rest>>
  \/ GenAgain /\ UNCHANGED <<avars, added, template, templateVars, rendered, adding, hvars, qvars>>

RerunSpec == Init /\ [][RerunNext]_vars

\* ============================================================== claims
IsCall(c) == kind[c] = "call"

\* the call was refused by the open circuit
Refused(c) == health[c] # Null /\ health[c].state = "OPEN"

\* C1: without overlap, a provider's stored state is OPEN exactly when at
\* least FAILURE_THRESHOLD recordFailure calls have been recorded since the
\* last recordSuccess (or since the start); with fewer the record is absent
\* or CLOSED, and the stored failureCount is that number of failures, so a
\* recordSuccess restarts the count from 0.
C1_OpensAtThreshold ==
  \A p \in Providers :
    /\ IF streak[p] >= FAILURE_THRESHOLD
       THEN store[p] # Null /\ store[p].state = "OPEN"
       ELSE IF store[p] = Null THEN streak[p] = 0 ELSE store[p].state = "CLOSED"
    /\ IF store[p] = Null THEN TRUE ELSE store[p].failureCount = streak[p]

C1_Witness ==
  \E p \in Providers :
    /\ streak[p] = FAILURE_THRESHOLD
    /\ store[p] # Null
    /\ store[p].state = "OPEN"
    /\ \E c \in Calls : pc[c] = "done" /\ prov[c] = p /\ kind[c] = "recordFailure"

\* C2: a call whose health read returns OPEN returns at once with ok=false
\* and an error containing "Circuit breaker is open"; it has sent no HTTP
\* request, used no retry, slept for no backoff, recorded nothing, and the
\* store is as it was.
C2_OpenCircuitRefuses ==
  [][\A c \in Calls :
       (pc[c] = "health" /\ pc'[c] # "health" /\ IsCall(c)
          /\ health'[c].state = "OPEN")
       => /\ pc'[c] = "done"
          /\ result'[c].ok = FALSE
          /\ Contains(result'[c].error, "Circuit breaker is open")
          /\ result'[c].providerId = prov[c]
          /\ httpCalls'[c] = 0
          /\ attempt'[c] = 0
          /\ sleeps'[c] = <<>>
          /\ recS'[c] = 0
          /\ recF'[c] = 0
          /\ store' = store]_vars

C2_Witness ==
  \E c \in Calls :
    /\ pc[c] = "done"
    /\ IsCall(c)
    /\ Refused(c)
    /\ result[c].ok = FALSE
    /\ httpCalls[c] = 0

\* C3: a read of a stored OPEN record returns OPEN while
\* now - lastAttempt <= OPEN_TIMEOUT_MS and HALF_OPEN once it is larger.
C3_HalfOpenAfterTimeout ==
  [][\A c \in Calls :
       (pc[c] = "health" /\ pc'[c] # "health"
          /\ store[prov[c]] # Null /\ store[prov[c]].state = "OPEN")
       => health'[c].state =
            IF now - store[prov[c]].lastAttempt <= OPEN_TIMEOUT_MS
            THEN "OPEN" ELSE "HALF_OPEN"]_vars

\* a read exactly OPEN_TIMEOUT_MS after lastAttempt has returned OPEN
C3_Witness ==
  \E c \in Calls :
    /\ pc[c] = "done"
    /\ kind[c] = "getHealthStatus"
    /\ health[c].state = "OPEN"
    /\ now - health[c].lastAttempt = OPEN_TIMEOUT_MS

\* C4: without overlap, the first call that reads HALF_OPEN and sends HTTP
\* leaves a record that the next read does not return as HALF_OPEN again
\* (CLOSED, or OPEN with a fresh lastAttempt), whatever the call's outcome.
C4_OneProbeOnly ==
  [][\A c \in Calls :
       (IsCall(c) /\ pc[c] # "done" /\ pc'[c] = "done"
          /\ health'[c].state = "HALF_OPEN" /\ httpCalls'[c] > 0)
       => getHealthStatus(store'[prov[c]], prov[c], now').state # "HALF_OPEN"]_vars

\* C5: a recordFailure that read the circuit as HALF_OPEN writes state OPEN
\* with its failureCount one more than the count read, whatever that is, and
\* lastAttempt the current time, so that the next read returns OPEN and the
\* open timeout runs from this failure.
C5_HalfOpenFailureReopens ==
  [][\A c \in Calls :
       (pc[c] = "rf_write" /\ pc'[c] = "done" /\ curHealth[c].state = "HALF_OPEN")
       => /\ store'[prov[c]].state = "OPEN"
          /\ store'[prov[c]].failureCount = curHealth[c].failureCount + 1
          /\ store'[prov[c]].lastAttempt = now'
          /\ getHealthStatus(store'[prov[c]], prov[c], now').state = "OPEN"]_vars

C5_Witness ==
  \E c \in Calls :
    /\ pc[c] = "done"
    /\ curHealth[c] # Null
    /\ curHealth[c].state = "HALF_OPEN"
    /\ store[prov[c]].state = "OPEN"
    /\ store[prov[c]].lastAttempt = now
    /\ now > curHealth[c].lastAttempt + OPEN_TIMEOUT_MS

\* C6: the write of a recordSuccess leaves the provider's record CLOSED
\* with failureCount 0, whatever was stored before.
C6_SuccessResets ==
  [][\A c \in Calls :
       (pc[c] = "rs" /\ pc'[c] = "done")
       => /\ store'[prov[c]].state = "CLOSED"
          /\ store'[prov[c]].failureCount = 0
          /\ store'[prov[c]].providerId = prov[c]]_vars

\* a success recorded by the probe of a circuit read as HALF_OPEN, which
\* was stored OPEN with failureCount at the threshold or above
C6_Witness ==
  \E c \in Calls :
    /\ pc[c] = "done"
    /\ IsCall(c)
    /\ recS[c] = 1
    /\ health[c].state = "HALF_OPEN"
    /\ health[c].failureCount >= FAILURE_THRESHOLD
    /\ store[prov[c]].state = "CLOSED"
    /\ store[prov[c]].failureCount = 0

\* spec.maxRetries, 1 when the spec has none
Configured(c) == IF maxRetries[c] = Null THEN 1 ELSE maxRetries[c].n

Exhausted(c) == IsCall(c) /\ attempt[c] > retries[c]

\* C8: without overlap, a call whose maxRetries+1 requests all failed in
\* transport calls recordFailure once and recordSuccess never, not before
\* its last request has failed; the stored failureCount is one more than
\* the call read, and the call returns ok=false, raw=null and the string of
\* the error its last request threw.
C8_ExhaustedRecordsOnce ==
  \A c \in Calls :
    IsCall(c) =>
      /\ pc[c] \in {"health", "fetch", "body", "sleep"} => recF[c] = 0
      /\ Exhausted(c) => recF[c] = 1 /\ recS[c] = 0 /\ httpCalls[c] = retries[c] + 1
      /\ (Exhausted(c) /\ pc[c] = "done")
           => /\ result[c] = [providerId |-> prov[c], raw |-> Null, ok |-> FALSE,
                               error |-> StringOf(thrown[c])]
              /\ store[prov[c]].failureCount = health[c].failureCount + 1
              /\ streak[prov[c]] = health[c].failureCount + 1

\* two requests failed with different errors
C8_Witness ==
  \E c \in Calls :
    /\ pc[c] = "done"
    /\ Exhausted(c)
    /\ retries[c] = 1
    /\ thrown[c] = NetworkError
    /\ result[c].error = StringOf(NetworkError)
    /\ recF[c] = 1

\* the response of the call, once it is built
Response(c) == IF pc[c] = "done" THEN result[c] ELSE ret[c]

\* the text holds, somewhere, a JSON object that passes the schema
ContainsValidJson(text) ==
  /\ Truthy(text)
  /\ \E i \in 1..Len(text.segs) :
       /\ DOMAIN text.segs[i] = {"json"}
       /\ \A k \in DOMAIN text.segs[i].json \cap SchemaKeys :
            FieldValid(k, text.segs[i].json[k])

\* the text from its first "{" to its last "}" is a JSON object that
\* passes the schema
MatchIsValidJson(text) ==
  /\ Truthy(text)
  /\ BraceIdx(text) # {}
  /\ Min(BraceIdx(text)) = Max(BraceIdx(text))
  /\ DOMAIN text.segs[Min(BraceIdx(text))] = {"json"}
  /\ \A k \in DOMAIN text.segs[Min(BraceIdx(text))].json \cap SchemaKeys :
       FieldValid(k, text.segs[Min(BraceIdx(text))].json[k])

\* the JSON object of such a text
MatchedObject(text) == text.segs[Min(BraceIdx(text))].json

\* C9 as stated: whenever the text of a received body contains a JSON
\* object that passes the schema, the call's response is ok=true.
C9_AnyValidJsonSucceeds ==
  \A c \in Calls :
    (IsCall(c) /\ Response(c) # Null /\ Response(c).raw # Null
       /\ ContainsValidJson(extractTextFromObject(Response(c).raw)))
    => Response(c).ok = TRUE

\* C9 amended: without overlap, whenever the text of a received body, taken
\* from its first "{" to its last "}", is a JSON object that passes the
\* schema, the call calls recordSuccess once and recordFailure never,
\* returns ok=true with parsed holding exactly the object's schema fields
\* with their values, and leaves the record CLOSED with failureCount 0.
C9_ValidJsonSucceeds ==
  \A c \in Calls :
    (IsCall(c) /\ Response(c) # Null /\ Response(c).raw # Null
       /\ MatchIsValidJson(extractTextFromObject(Response(c).raw)))
    => LET obj == MatchedObject(extractTextFromObject(Response(c).raw))
       IN /\ Response(c).ok = TRUE
          /\ Response(c).providerId = prov[c]
          /\ DOMAIN Response(c).parsed = DOMAIN obj \cap SchemaKeys
          /\ \A k \in DOMAIN Response(c).parsed : Response(c).parsed[k] = obj[k]
          /\ recS[c] = 1
          /\ recF[c] = 0
          /\ pc[c] = "done"
               => /\ store[prov[c]].state = "CLOSED"
                  /\ store[prov[c]].failureCount = 0

\* a call that returned ok=true for an object carrying a key outside the schema
C9_Witness ==
  \E c \in Calls :
    /\ pc[c] = "done"
    /\ IsCall(c)
    /\ result[c].ok = TRUE
    /\ result[c].raw = BodyPartial
    /\ DOMAIN result[c].parsed = {"type"}
    /\ recS[c] = 1
    /\ store[prov[c]].failureCount = 0

\* C10: without overlap, a call that received a body whose JSON object
\* fails the schema returns ok=false with the invalid-schema error after
\* that one response, having called recordFailure once, and the stored
\* failureCount is one more than the call read.
C10_SchemaFailureRecorded ==
  \A c \in Calls :
    (IsCall(c) /\ pc[c] = "done" /\ result[c].ok = FALSE
       /\ result[c].error = InvalidSchemaError)
    => /\ httpCalls[c] = attempt[c] + 1
       /\ recF[c] = 1
       /\ store[prov[c]] # Null
       /\ store[prov[c]].failureCount = health[c].failureCount + 1

\* C4 holds of every outcome but the schema-invalid one
C4_OneProbeUnlessSchemaInvalid ==
  [][\A c \in Calls :
       (IsCall(c) /\ pc[c] # "done" /\ pc'[c] = "done"
          /\ health'[c].state = "HALF_OPEN" /\ httpCalls'[c] > 0
          /\ (result'[c].ok = FALSE => result'[c].error # InvalidSchemaError))
       => getHealthStatus(store'[prov[c]], prov[c], now').state # "HALF_OPEN"]_vars

\* the body gives no text, or the text from its first "{" to its last "}"
\* is not one JSON object
NoSignalIn(raw) ==
  LET text == extractTextFromObject(raw)
  IN IF ~Truthy(text) THEN TRUE
     ELSE IF BraceIdx(text) = {} THEN TRUE
     ELSE IF Min(BraceIdx(text)) # Max(BraceIdx(text)) THEN TRUE
     ELSE DOMAIN text.segs[Min(BraceIdx(text))] # {"json"}

CallAnswersAreResponses ==
  \A c \in Calls :
    (IsCall(c) /\ pc[c] = "done")
    => result[c] \in CallResponses(prov[c], Bodies, FetchErrors \cup {BodyError})

\* the dispatcher has every adapter's answer
Dispatched == gpc \in {"all", "playbook", "done", "threw"} /\ running = {}

\* C12: once every call of a run has settled, in whatever order, the list
\* the dispatcher yields has one response per provider spec and its i-th
\* response carries the id of the i-th spec; the list the run returns is
\* that list.
C12_OnePerAdapterInOrder ==
  /\ Dispatched
       => /\ Len(settled) = Len(providerSpecs)
          /\ \A i \in 1..Len(providerSpecs) :
               /\ settled[i] # Null
               /\ settled[i].providerId = providerSpecs[i]
  /\ (gpc = "done")
       => /\ Len(out.providerResponses) = Len(providerSpecs)
          /\ \A i \in 1..Len(providerSpecs) :
               out.providerResponses[i].providerId = providerSpecs[i]

\* three adapters, the last one dispatched answered before the first
C12_Witness ==
  /\ gpc = "done"
  /\ late
  /\ Len(providerSpecs) = 3
  /\ out.providerResponses[1].ok = TRUE
  /\ out.providerResponses[2].ok = FALSE
  /\ out.providerResponses[3].providerId = "p3"

\* response i of the run is ok and carries parsed fields
OkParsed(i) == settled[i].ok = TRUE /\ "parsed" \in DOMAIN settled[i]

\* some adapter of the run failed
SomeFailed == \E i \in 1..Len(settled) : settled[i] # Null /\ settled[i].ok = FALSE

\* C13: a run never throws, whatever the adapters answered; a run in which
\* at least one adapter answered ok with parsed fields goes on to build a
\* final signal, and what it returns holds that signal and the responses
\* of all the adapters, failed ones included, in dispatch order.
C13_FailuresNotFatal ==
  /\ gpc # "threw"
  /\ (Dispatched /\ gpc # "all" /\ \E i \in 1..Len(settled) : OkParsed(i))
       => /\ final # Null
          /\ final.status = "NEW"
          /\ gpc = "done"
               => /\ "final" \in DOMAIN out
                  /\ out.final = final
                  /\ out.providerResponses = settled
                  /\ Len(out.providerResponses) = Len(providerSpecs)

\* one adapter refused by its circuit, one without JSON, one with a signal
C13_Witness ==
  /\ gpc = "done"
  /\ Len(providerSpecs) = 3
  /\ out.providerResponses[1] = [providerId |-> "p1", raw |-> Null, ok |-> FALSE,
                                  error |-> CircuitOpenError("p1")]
  /\ out.providerResponses[2] = BodyResponse("p2", BodyNoText)
  /\ out.providerResponses[3] = BodyResponse("p3", BodySell90)
  /\ "final" \in DOMAIN out
  /\ out.final.type = "SELL"

\* C14: the run returns without a final signal exactly when no response is
\* ok with parsed fields; it then returns the responses of all adapters
\* and leaves the playbook as it was; a run that returns a final signal
\* has appended it to the playbook.
C14_NoFinalIffNoneParsed ==
  [][/\ (gpc = "all" /\ gpc' # "all")
          => /\ (gpc' = "done") <=> (\A i \in 1..Len(settled) : ~OkParsed(i))
             /\ (gpc' = "done")
                  => /\ "final" \notin DOMAIN out'
                     /\ out'.providerResponses = settled
                     /\ Len(out'.providerResponses) = Len(providerSpecs)
                     /\ playbook' = playbook
     /\ (gpc = "playbook" /\ gpc' = "done")
          => /\ "final" \in DOMAIN out'
             /\ \E i \in 1..Len(settled) : OkParsed(i)
             /\ Len(playbook') = Len(playbook) + 1
             /\ playbook'[Len(playbook')].signal = out'.final]_vars

\* every kind of failure at once: no final signal, nothing in the playbook
C14_Witness ==
  /\ gpc = "done"
  /\ Len(providerSpecs) = 3
  /\ "final" \notin DOMAIN out
  /\ out.providerResponses[1] = BodyResponse("p1", BodyBadSchema)
  /\ out.providerResponses[2] = [providerId |-> "p2", raw |-> Null, ok |-> FALSE,
                                  error |-> StringOf(NetworkError)]
  /\ out.providerResponses[3] = [providerId |-> "p3", raw |-> Null, ok |-> FALSE,
                                  error |-> CircuitOpenError("p3")]
  /\ playbook = <<>>

SignalTypes == {"BUY", "SELL", "HOLD"}

\* the type response i votes for: its own, or HOLD when it has none
TypeVoted(i) ==
  IF "type" \in DOMAIN settled[i].parsed THEN settled[i].parsed.type.str ELSE "HOLD"

\* the confidence response i counts with: its own, or 50 when it has none
ConfidenceCounted(i) ==
  IF "confidence" \in DOMAIN settled[i].parsed
  THEN settled[i].parsed.confidence.num
  ELSE 50

\* the ok+parsed responses that vote for type t
Votes(t) == {i \in 1..Len(settled) : OkParsed(i) /\ TypeVoted(i) = t}

RECURSIVE ConfidenceSum(_)
ConfidenceSum(S) ==
  IF S = {} THEN 0
  ELSE LET i == CHOOSE i \in S : TRUE
       IN ConfidenceCounted(i) + ConfidenceSum(S \ {i})

\* the run has built its final signal
Built == gpc \in {"playbook", "done"} /\ final # Null

\* C15: in WEIGHTED mode the final type has voters, and no type's voters
\* have a larger count * mean confidence (the sum of their confidences,
\* 50 for a missing one) than the final type's.
C15_WeightedWinnerMaximal ==
  (Built /\ aggregation = "WEIGHTED")
  => /\ Votes(final.type) # {}
     /\ \A t \in SignalTypes :
          ConfidenceSum(Votes(t)) <= ConfidenceSum(Votes(final.type))

\* two SELL votes of confidence 35 lose to one BUY vote of confidence 80
C15_Witness ==
  /\ gpc = "done"
  /\ aggregation = "WEIGHTED"
  /\ settled = <<BodyResponse("p1", BodySell35), BodyResponse("p2", BodySell35),
                 BodyResponse("p3", BodyFull)>>
  /\ out.final.type = "BUY"

\* C16: in MAJORITY mode the final type has voters, and no type has more
\* voters than the final type, whatever the confidences.
C16_MajorityWinnerLargest ==
  (Built /\ aggregation = "MAJORITY")
  => /\ Votes(final.type) # {}
     /\ \A t \in SignalTypes :
          Cardinality(Votes(t)) <= Cardinality(Votes(final.type))

\* two SELL votes of confidence 35 beat one BUY vote of confidence 80
C16_Witness ==
  /\ gpc = "done"
  /\ aggregation = "MAJORITY"
  /\ settled = <<BodyResponse("p1", BodyFull), BodyResponse("p2", BodySell35),
                 BodyResponse("p3", BodySell35)>>
  /\ out.final.type = "SELL"

\* C17: in FIRST mode a run with an ok+parsed response does not throw, and
\* the final type is the type voted by the first such response in dispatch
\* order, HOLD when it has no type.
C17_FirstWinner ==
  (aggregation = "FIRST" /\ Dispatched /\ gpc # "all"
     /\ \E i \in 1..Len(settled) : OkParsed(i))
  => /\ gpc # "threw"
     /\ final # Null
     /\ final.type = TypeVoted(Min({i \in 1..Len(settled) : OkParsed(i)}))

\* the first adapter failed, the second gave no type, two others voted BUY
C17_Witness ==
  /\ gpc = "done"
  /\ aggregation = "FIRST"
  /\ settled = <<BodyResponse("p1", BodyNoText), BodyResponse("p2", BodyNoType),
                 BodyResponse("p3", BodyFull)>>
  /\ out.final.type = "HOLD"
  /\ out.final.confidence = 50

\* the voters of the final type that supplied field k
Suppliers(k) == {i \in Votes(final.type) : k \in DOMAIN settled[i].parsed}

RECURSIVE FieldSum(_, _)
FieldSum(S, k) ==
  IF S = {} THEN 0
  ELSE LET i == CHOOSE i \in S : TRUE
       IN settled[i].parsed[k].num + FieldSum(S \ {i}, k)

\* number x is the mean of field k over the voters that supplied it, or 0
IsMeanOfSupplied(x, k) ==
  IF Suppliers(k) = {} THEN x.n = 0
  ELSE x.n * Cardinality(Suppliers(k)) = FieldSum(Suppliers(k), k) * x.d

\* C18: each of price, stopLoss and takeProfit of the final signal is the
\* mean of that field over the voters of the final type that supplied it,
\* and 0 when none of them did.
C18_FieldMeans ==
  Built
  => /\ IsMeanOfSupplied(final.price, "price")
     /\ IsMeanOfSupplied(final.riskMetrics.stopLoss, "stopLoss")
     /\ IsMeanOfSupplied(final.riskMetrics.takeProfit, "takeProfit")

\* two BUY voters, one without stopLoss, and a SELL voter that is left out
C18_Witness ==
  /\ gpc = "done"
  /\ aggregation = "WEIGHTED"
  /\ settled = <<BodyResponse("p1", BodyFull), BodyResponse("p2", BodyBuy60),
                 BodyResponse("p3", BodySell90)>>
  /\ out.final.type = "BUY"
  /\ out.final.price = [n |-> 50100, d |-> 1]
  /\ out.final.riskMetrics.stopLoss = [n |-> 49000, d |-> 1]
  /\ out.final.riskMetrics.takeProfit = [n |-> 51100, d |-> 1]

\* C19: the final confidence is an integer in 0..100, the nearest to the
\* mean of the final type's voters' confidences (50 for a missing one), a
\* half going up.
C19_ConfidenceRoundedMean ==
  Built
  => LET N == Cardinality(Votes(final.type))
         S == ConfidenceSum(Votes(final.type))
     IN /\ final.confidence \in 0..100
        /\ 2 * S - N < 2 * N * final.confidence
        /\ 2 * N * final.confidence <= 2 * S + N

\* a voter without confidence and one of confidence 35: mean 42.5
C19_Witness ==
  /\ gpc = "done"
  /\ settled = <<BodyResponse("p1", BodyPartial), BodyResponse("p2", BodySell35)>>
  /\ out.final.type = "SELL"
  /\ out.final.confidence = 43

\* number x is q rounded to 2 decimals
IsRounded2(x, q) ==
  LET k == x.n * (100 \div x.d)
      diff == 2 * k * q.d - 200 * q.n
  IN /\ 100 % x.d = 0
     /\ diff <= q.d
     /\ 0 - diff <= q.d

\* the ratio the claim gives for the final signal's price, stopLoss and
\* takeProfit
RatioAsClaimed ==
  LET price == final.price
      stopLoss == final.riskMetrics.stopLoss
      takeProfit == final.riskMetrics.takeProfit
      ratio == final.riskMetrics.riskRewardRatio
  IN IF price.n # 0 /\ stopLoss.n # 0 /\ takeProfit.n # 0
     THEN price # stopLoss
            => IsRounded2(ratio, RatDiv(RatAbsDiff(takeProfit, price),
                                        RatAbsDiff(price, stopLoss)))
     ELSE ratio.n = 0

\* C20 as stated: riskRewardRatio is |takeProfit - price| / |price -
\* stopLoss| rounded to 2 decimals when the three are non-zero, and 0 when
\* any of them is zero.
C20_RiskRewardRatio == Built => RatioAsClaimed

\* the ratio is as claimed in every run but those whose final signal has
\* price and stopLoss and no takeProfit
C20_RatioUnlessNoTakeProfit ==
  (Built /\ ~(final.riskMetrics.takeProfit.n = 0 /\ final.price.n # 0
                /\ final.riskMetrics.stopLoss.n # 0))
  => RatioAsClaimed

\* the aggregated fields of a final signal
AggregatedFields(f) ==
  [type |-> f.type, confidence |-> f.confidence, price |-> f.price,
   stopLoss |-> f.riskMetrics.stopLoss, takeProfit |-> f.riskMetrics.takeProfit,
   riskRewardRatio |-> f.riskMetrics.riskRewardRatio, reasoning |-> f.reasoning]

\* C21: of two runs with the same specs and mode in which every provider
\* gave the same response, whatever the orders in which the calls settled,
\* the second returns the same list of responses as the first, returns a
\* final signal exactly if the first did, and that signal has the same
\* type, confidence, price, stopLoss, takeProfit, riskRewardRatio and
\* reasoning.
C21_SameResponsesSameFields ==
  (gpc = "done" /\ prev # Null)
  => /\ out.providerResponses = prev.out.providerResponses
     /\ ("final" \in DOMAIN out) <=> ("final" \in DOMAIN prev.out)
     /\ ("final" \in DOMAIN out)
          => AggregatedFields(out.final) = AggregatedFields(prev.out.final)

\* three providers in FIRST mode: the calls of the first run settled in
\* dispatch order, those of the second did not, and the two signals differ
\* in their id only
C21_Witness ==
  /\ gpc = "done"
  /\ prev # Null
  /\ aggregation = "FIRST"
  /\ Len(providerSpecs) = 3
  /\ late
  /\ ~prev.late
  /\ "final" \in DOMAIN out
  /\ out.final.id # prev.out.final.id
  /\ out.providerResponses[1] = BodyResponse("p1", BodyNoType)
  /\ out.providerResponses[2] = BodyResponse("p2", BodyFull)
  /\ out.final.type = "HOLD"

\* exactly one response is ok with parsed, and it has type, confidence and
\* price
SingleSignal ==
  /\ Cardinality({i \in 1..Len(settled) : OkParsed(i)}) = 1
  /\ \A i \in 1..Len(settled) :
       OkParsed(i) => {"type", "confidence", "price"} \subseteq DOMAIN settled[i].parsed

\* the parsed fields of that response
TheSignal == settled[CHOOSE i \in 1..Len(settled) : OkParsed(i)].parsed

\* C22 as stated: when exactly one response is ok with parsed {type,
\* confidence, price}, the final signal has that type, that confidence and
\* that price, in every mode.
C22_SingleSignalPassesThrough ==
  (Built /\ SingleSignal)
  => /\ final.type = TheSignal.type.str
     /\ Rat(final.confidence, 1) = RatOf(TheSignal.confidence)
     /\ final.price = RatOf(TheSignal.price)

\* C22 amended: when exactly one response is ok with parsed {type,
\* confidence, price}, the final signal has, in every mode, that type, that
\* price, and that confidence rounded to the nearest integer, a half going
\* up (the confidence itself when it is an integer).
C22_SingleSignalRounded ==
  (Built /\ SingleSignal)
  => LET c == RatOf(TheSignal.confidence)
     IN /\ final.type = TheSignal.type.str
        /\ final.price = RatOf(TheSignal.price)
        /\ 2 * c.n - c.d < 2 * c.d * final.confidence
        /\ 2 * c.d * final.confidence <= 2 * c.n + c.d
        /\ c.d = 1 => final.confidence = c.n

\* the only signal, SELL at 1234.5 with confidence 72.5, between two
\* failed providers
C22_Witness ==
  /\ gpc = "done"
  /\ aggregation = "MAJORITY"
  /\ settled = <<[providerId |-> "p1", raw |-> Null, ok |-> FALSE,
                  error |-> CircuitOpenError("p1")],
                 BodyResponse("p2", BodyHalf),
                 BodyResponse("p3", BodyNoText)>>
  /\ out.final.type = "SELL"
  /\ out.final.confidence = 73
  /\ out.final.price = [n |-> 2469, d |-> 2]

\* the fields the prose of BodyProse names: SELL, confidence 72, entry 1234.50
ProseFields ==
  [type |-> [str |-> "SELL"], confidence |-> [num |-> 72],
   price |-> [num |-> 2469, den |-> 2]]

\* C23: a response whose text holds no JSON object but names a direction,
\* "Confidence: n" and "Entry: $x" in prose is parsed into a signal with
\* those fields, and the call reports success, not a no-JSON failure.
C23_ProseParsedByFallback ==
  \A c \in Calls :
    (pc[c] = "done" /\ kind[c] = "call" /\ result[c].raw = BodyProse)
    => /\ result[c].ok
       /\ result[c].parsed = ProseFields

\* an invocation suspended in getHealthStatus: called on its own, by
\* adapter.call (llmService line 156) or by recordFailure (line 66)
Reading(c) == pc[c] \in {"health", "rf_read"}

\* C26: getHealthStatus never writes to the health store: whatever record
\* is stored (none, CLOSED, OPEN, OPEN with the timeout elapsed and so
\* returned as HALF_OPEN), it is the same before and after the read.
C26_ReadLeavesStore ==
  [][\A c \in Calls : (Reading(c) /\ pc'[c] # pc[c]) => store' = store]_vars

\* a read returned HALF_OPEN and the stored record is still OPEN
C26_Witness ==
  \E c \in Calls :
    /\ kind[c] = "getHealthStatus"
    /\ pc[c] = "done"
    /\ health[c].state = "HALF_OPEN"
    /\ store[prov[c]] # Null
    /\ store[prov[c]].state = "OPEN"
    /\ now - store[prov[c]].lastAttempt > OPEN_TIMEOUT_MS

\* C27: the sleep after failed attempt number a (a = 0, 1, ...) is
\* 200 * 2^a ms, 200 ms after the first failed attempt and 400 ms after
\* the second, and no sleep follows the last failed attempt.
C27_BackoffFromAttemptZero ==
  \A c \in Calls :
    kind[c] = "call"
    => /\ \A k \in 1..Len(sleeps[c]) : sleeps[c][k] = BACKOFF_BASE_MS * Pow2(k - 1)
       /\ Len(sleeps[c]) <= retries[c]

\* C28: every HTTP attempt ends.  While adapter.call waits for the provider,
\* for the response or for the rest of its body, the attempt's own timeout
\* is pending, so that a provider that never answers or never finishes the
\* body is aborted and the call goes on to its retry or its return.
C28_WaitingAttemptHasTimeout ==
  \A c \in Calls :
    (kind[c] = "call" /\ pc[c] \in {"fetch", "body"}) => timer[c]

\* what the mode compares for type t: its number of votes in MAJORITY, the
\* sum of its voters' confidences (count * mean confidence) in WEIGHTED
Criterion(t) ==
  IF aggregation = "MAJORITY" THEN Cardinality(Votes(t)) ELSE ConfidenceSum(Votes(t))

\* the voted types that tie with the final type on the criterion
TiedTypes ==
  {t \in SignalTypes : Votes(t) # {} /\ Criterion(t) = Criterion(final.type)}

\* C29: when vote groups tie on the winning criterion (counts in MAJORITY,
\* count * mean confidence in WEIGHTED), the winner is the tied group whose
\* type was met first in dispatch order among the ok+parsed responses.
C29_TieGoesToFirstMet ==
  (Built /\ aggregation \in {"MAJORITY", "WEIGHTED"})
  => /\ Votes(final.type) # {}
     /\ \A t \in TiedTypes : Min(Votes(final.type)) <= Min(Votes(t))

\* WEIGHTED: one HOLD vote of confidence 100 ties with two SELL votes of
\* confidence 50 each, and HOLD, met first, wins
C29_Witness ==
  /\ gpc = "done"
  /\ aggregation = "WEIGHTED"
  /\ settled = <<BodyResponse("p1", BodyHold), BodyResponse("p2", BodyPartial),
                 BodyResponse("p3", BodyPartial)>>
  /\ Cardinality(TiedTypes) = 2
  /\ out.final.type = "HOLD"

\* x has at most 2 decimal places
TwoDecimals(x) == 100 % x.d = 0

\* C30: the final signal's price, stopLoss and takeProfit are each rounded
\* to 2 decimal places, for every winning group, also one whose mean has no
\* 2-decimal representation.
C30_MoneyRoundedTo2 ==
  Built
  => /\ TwoDecimals(final.price)
     /\ TwoDecimals(final.riskMetrics.stopLoss)
     /\ TwoDecimals(final.riskMetrics.takeProfit)

HasPlaceholder(s) ==
  \E i \in 1..Len(s) : \E j \in (i + 2)..(Len(s) - 1) :
    s[i] = "{" /\ s[i + 1] = "{" /\ s[j] = "}" /\ s[j + 1] = "}"

\* from position i on, the braces of s only form placeholders {{key}} with
\* a key of at least one character and no brace
RECURSIVE WellFormedFrom(_, _)
WellFormedFrom(s, i) ==
  IF i > Len(s) THEN TRUE
  ELSE IF s[i] = "}" THEN FALSE
  ELSE IF s[i] # "{" THEN WellFormedFrom(s, i + 1)
  ELSE LET closes == {j \in (i + 1)..Len(s) : s[j] = "}"}
       IN IF closes = {} \/ Min(closes \cup {Len(s)}) + 1 > Len(s) THEN FALSE
          ELSE LET j == Min(closes)
               IN /\ j >= i + 3
                  /\ s[i + 1] = "{"
                  /\ s[j + 1] = "}"
                  /\ \A m \in (i + 2)..(j - 1) : s[m] # "{"
                  /\ WellFormedFrom(s, j + 2)

\* the value the claim gives a key: the one vars holds for it, or ''
ValueOrEmpty(k) ==
  IF k \in DOMAIN templateVars THEN templateVars[k].str ELSE <<>>

\* the rendering the claim gives a well-formed template from position i on
RECURSIVE ClaimedFrom(_, _)
ClaimedFrom(s, i) ==
  IF i > Len(s) THEN <<>>
  ELSE IF s[i] # "{" THEN <<s[i]>> \o ClaimedFrom(s, i + 1)
  ELSE LET j == Min({m \in (i + 1)..Len(s) : s[m] = "}"})
       IN ValueOrEmpty(Trim(SubSeq(s, i + 2, j - 1))) \o ClaimedFrom(s, j + 2)

\* p occurs in s
Occurs(p, s) ==
  \E i \in 1..(Len(s) - Len(p) + 1) : SubSeq(s, i, i + Len(p) - 1) = p

\* C25: renderTemplate returns its input unchanged when the input has no
\* {{...}} placeholder; it replaces every {{key}} (key trimmed) whose key
\* has a value by that value and every {{key}} without a value by the empty
\* string, in a single pass; and the output holds no literal placeholder of
\* a key that has a value.
C25_RenderReplacesByValueOrEmpty ==
  rendered # Null
  => /\ ~HasPlaceholder(template) => rendered.str = template
     /\ WellFormedFrom(template, 1) => rendered.str = ClaimedFrom(template, 1)
     /\ \A k \in DOMAIN templateVars :
          ~Occurs(<<"{", "{">> \o k \o <<"}", "}">>, rendered.str)

\* C25, without the keys Object.prototype defines and for values that hold
\* no placeholder: the rendering is the claimed one.
C25_RenderOwnKeys ==
  (rendered # Null /\ ~Occurs(<<"constructor">>, template)
     /\ \A k \in DOMAIN templateVars : ~HasPlaceholder(templateVars[k].str))
  => /\ ~HasPlaceholder(template) => rendered.str = template
     /\ WellFormedFrom(template, 1) => rendered.str = ClaimedFrom(template, 1)
     /\ \A k \in DOMAIN templateVars :
          ~Occurs(<<"{", "{">> \o k \o <<"}", "}">>, rendered.str)

\* C33: whatever the interleaving of getHealthStatus, recordSuccess and
\* recordFailure, the stored state of a provider is CLOSED or OPEN, never
\* HALF_OPEN: HALF_OPEN is only what a read returns.
C33_StoredNeverHalfOpen ==
  \A p \in Providers :
    store[p] # Null => store[p].state \in {"CLOSED", "OPEN"}

\* a recordFailure that read HALF_OPEN has written, while a read that
\* returned HALF_OPEN is still held by the other invocation
C33_Witness ==
  \E c, d \in Calls :
    /\ kind[c] = "recordFailure" /\ pc[c] = "done"
    /\ curHealth[c].state = "HALF_OPEN"
    /\ kind[d] = "getHealthStatus" /\ pc[d] = "done"
    /\ health[d].state = "HALF_OPEN"
    /\ prov[c] = prov[d]
    /\ store[prov[c]].state = "OPEN"

\* C34: whatever the interleaving of recordSuccess and recordFailure, a
\* stored record is OPEN exactly when its failureCount >= FAILURE_THRESHOLD
\* and CLOSED exactly when its failureCount < FAILURE_THRESHOLD.
C34_OpenIffThreshold ==
  \A p \in Providers :
    store[p] # Null
    => /\ store[p].state = "OPEN" <=> store[p].failureCount >= FAILURE_THRESHOLD
       /\ store[p].state = "CLOSED" <=> store[p].failureCount < FAILURE_THRESHOLD

\* the record opened at the threshold although more recordFailure calls
\* than that have written (two of them read the same record)
C34_Witness ==
  /\ store["p1"] # Null
  /\ store["p1"].state = "OPEN"
  /\ store["p1"].failureCount = FAILURE_THRESHOLD
  /\ streak["p1"] > FAILURE_THRESHOLD

\* the failureCount stored for p, 0 when nothing is stored
StoredCount(p) == IF store[p] = Null THEN 0 ELSE store[p].failureCount

\* C36 as stated: no failure is lost when recordFailure calls for one
\* provider overlap: after k of them with no recordSuccess the stored
\* failureCount has increased by k, so the circuit is open from the
\* FAILURE_THRESHOLD-th failure on.
C36_NoFailureLost ==
  \A p \in Providers :
    streak[p] < MaxStreak
    => /\ StoredCount(p) = streak[p]
       /\ streak[p] >= FAILURE_THRESHOLD => store[p].state = "OPEN"

\* C36 amended: each recordFailure call stores the failureCount it read
\* plus one, so that after k calls with no recordSuccess the stored count
\* has increased by at least one and at most k, and by one per call whose
\* write finds the count it read.
C36_FailuresCountedFromRead ==
  [][\A c \in Calls :
       (pc[c] = "rf_write" /\ pc'[c] = "done")
       => /\ store'[prov[c]].failureCount = curHealth[c].failureCount + 1
          /\ StoredCount(prov[c]) = curHealth[c].failureCount
               => store'[prov[c]].failureCount = StoredCount(prov[c]) + 1
          /\ store'[prov[c]].failureCount >= 1
          /\ store'[prov[c]].failureCount <= streak'[prov[c]]]_vars

\* two overlapping recordFailure calls have both written, and one failure
\* is stored
C36_Witness ==
  /\ pc = [c \in Calls |-> "done"]
  /\ kind = [c \in Calls |-> "recordFailure"]
  /\ streak["p1"] = 2
  /\ store["p1"].failureCount = 1

\* the text of raw holds a JSON object with none of the signal's fields
NoSignalField(raw) ==
  LET parsedJson == ParsedJson(extractTextFromObject(raw))
  IN IF parsedJson = Null THEN FALSE
     ELSE DOMAIN parsedJson \cap SchemaKeys = {}

\* C32: a response whose JSON object holds no recognisable signal field,
\* such as {}, is a failure: the adapter returns ok=false and records a
\* failure, not a success, on the health record.
C32_EmptyObjectFails ==
  \A c \in Calls :
    (kind[c] = "call" /\ pc[c] = "done" /\ result[c].raw # Null)
    => (NoSignalField(result[c].raw)
          => /\ result[c].ok = FALSE
             /\ recF[c] = 1
             /\ recS[c] = 0)

\* parsed is what schema validation lets through: known fields, each valid
Validated(parsed) ==
  \A k \in DOMAIN parsed : k \in SchemaKeys /\ FieldValid(k, parsed[k])

\* C37: every ParsedResponse the adapter returns is well-formed: with
\* ok=true it has a parsed that passed schema validation and no error, with
\* ok=false it has an error and no parsed, and its providerId is the id of
\* the spec the adapter was built from.
C37_ResponseWellFormed ==
  \A c \in Calls :
    (kind[c] = "call" /\ pc[c] = "done")
    => /\ {"providerId", "raw", "ok"} \subseteq DOMAIN result[c]
       /\ result[c].providerId = prov[c]
       /\ IF result[c].ok
          THEN /\ "parsed" \in DOMAIN result[c]
               /\ "error" \notin DOMAIN result[c]
               /\ Validated(result[c].parsed)
          ELSE /\ "error" \in DOMAIN result[c]
               /\ "parsed" \notin DOMAIN result[c]

\* the adapter of p2 has returned the last transport error after one retry
C37_Witness ==
  /\ pc["c1"] = "done"
  /\ result["c1"] = [providerId |-> "p2", raw |-> Null, ok |-> FALSE,
                     error |-> StringOf(NetworkError)]
  /\ httpCalls["c1"] = 2

\* the signals whose addSignalToPlaybook call has returned
Returned == {n \in 1..added : \A c \in Calls : adding[c] = Null \/ adding[c].item.id # n}

\* C39: no playbook entry is lost when addSignalToPlaybook calls overlap:
\* in any interleaving of their load and save steps, every signal whose
\* call has returned is in the stored playbook, as long as the retention
\* limit is not exceeded.
C39_NoEntryLost ==
  added <= MAX_SIGNALS
  => \A n \in Returned : \E k \in 1..Len(playbook) : playbook[k] = SignalNo(n)

\* the stored record of p is OPEN and its open timeout has elapsed
TimeoutElapsed(p) ==
  IF store[p] = Null THEN FALSE
  ELSE store[p].state = "OPEN" /\ now - store[p].lastAttempt > OPEN_TIMEOUT_MS

\* C38: a provider whose circuit was OPEN is probed again once more than
\* OPEN_TIMEOUT_MS has passed since lastAttempt: the next generate() has it
\* among the active providers and calls it, even if no refreshProviders ran
\* since the hook saw it OPEN and even if every provider was OPEN then.
C38_ElapsedProviderProbed ==
  [][generations' = generations + 1
       => \A p \in Providers :
            TimeoutElapsed(p) => p \in activeProviders' /\ p \in called']_vars

\* template t holds a placeholder for the key name, bare or padded
NamesKey(t, name) ==
  \/ Occurs(Placeholder(name), t)
  \/ Occurs(Placeholder(<<" ">> \o name \o <<" ">>), t)

\* the request template call() renders
RequestTemplateUsed ==
  IF callArgs.requestTemplate = Null THEN DefaultRequestTemplate
  ELSE callArgs.requestTemplate

\* C31: the provider's secrets are available for substitution in the header
\* templates and in the request body template alike: a placeholder naming
\* a stored secret is replaced by the secret's value wherever it occurs.
C31_SecretsInHeadersAndBody ==
  request # Null
  => \A name \in DOMAIN OrEmpty(callArgs.secrets) :
       /\ IF callArgs.headers = Null THEN TRUE
          ELSE NamesKey(callArgs.headers, name)
                 => Occurs(callArgs.secrets[name].str, request.headers.str)
       /\ NamesKey(RequestTemplateUsed, name)
            => Occurs(callArgs.secrets[name].str, request.bodyText.str)

\* C31, for the headers alone: a placeholder naming a stored secret is
\* replaced by the secret's value in every header.
C31_SecretsInHeaders ==
  request # Null
  => \A name \in DOMAIN OrEmpty(callArgs.secrets) :
       IF callArgs.headers = Null THEN TRUE
       ELSE NamesKey(callArgs.headers, name)
              => /\ Occurs(callArgs.secrets[name].str, request.headers.str)
                 /\ ~HasPlaceholder(request.headers.str)

\* the call slots an adapter step belongs to: the slots whose position changes
Stepping(c) == kind[c] = "call" /\ pc'[c] # pc[c] /\ pc[c] # "idle"

\* C35: within one orchestration run over providers with distinct ids, every
\* step of an adapter call for provider A leaves the health record of every
\* other provider B unchanged, whatever the outcome and however the calls
\* interleave; the records the call holds and writes are A's own
C35_OtherRecordsUnchanged ==
  [][\A c \in Calls : Stepping(c) =>
        /\ \A q \in Providers \ {prov[c]} : store'[q] = store[q]
        /\ store'[prov[c]] # store[prov[c]] => store'[prov[c]] = pending[c]
        /\ (pending'[c] # pending[c] /\ pending'[c] # Null) =>
             pending'[c].providerId = prov[c]]_vars

\* two calls of one run in flight together on different providers, one about
\* to write its success and the other its failure, the first provider's record
\* already written by an earlier call
C35_Witness ==
  /\ pc["c1"] = "rs" /\ pc["c2"] = "rf_write"
  /\ kind["c1"] = "call" /\ kind["c2"] = "call"
  /\ prov["c1"] # prov["c2"]
  /\ store[prov["c1"]] # Null
  /\ store[prov["c2"]] # Null

====
